---- MODULE Spec2Model ----
(***************************************************************************)
(* A model of the generic mechanics of the govcd client library:           *)
(*   - the metadata ignore filter of metadata_v2.go and the generic        *)
(*     metadata calls that use it (getMetadata, getMetadataByKey,          *)
(*     deleteMetadata);                                                    *)
(*   - the wait helpers built on Task.WaitTaskCompletion;                  *)
(*   - the paginated list retrieval and the by-name lookups built on it;   *)
(*   - the metadata calls that write (addMetadata, mergeAllMetadata and    *)
(*     their deprecated forms), alone and in a sequence of calls;          *)
(*   - methods that make several requests, and the create, get, update     *)
(*     and delete of entities through the generic CRUD helpers.            *)
(*                                                                         *)
(* Go strings that the code inspects character by character (HREFs, object *)
(* types, object names) are sequences of one-character strings.  Keys and  *)
(* values of metadata entries are only ever handed to a regular            *)
(* expression, so they are atoms, and a compiled *regexp.Regexp is the set *)
(* of atoms it matches.  A Go pointer is the empty set (nil) or a          *)
(* singleton holding the value pointed to.  An error is the sequence of    *)
(* the pieces of its message; the nil error is the empty sequence.         *)
(***************************************************************************)
EXTENDS Integers, Sequences, FiniteSets, TLC

VARIABLES
    IgnoredMetadata,  \* Client.IgnoredMetadata: the list of ignore rules
    ret,              \* the last call: its arguments, what the server held,
                      \* the requests it sent and what it returned
    task,             \* the server's task: its status and its error message
    wait,             \* the call of a wait helper: the helper, where it is,
                      \* what its polls saw and what it returned
    pages,            \* the pages the server answers a list request with
    fetch,            \* the retrieval of a list: the caller, the page it is at,
                      \* the items so far and what it returned
    server,           \* the metadata entries the server holds for the object
                      \* of a sequence of calls
    call              \* a method that makes several requests: where it is,
                      \* the requests sent, those not yet answered, its return

vars == <<IgnoredMetadata, ret, task, wait, pages, fetch, server, call>>

----------------------------------------------------------------------------
(* Bounds *)

MaxRules == 2
MaxWait == 3
MaxPages == 3
MaxEntities == 3
MaxIds == 2

----------------------------------------------------------------------------
(* Strings and pointers *)

Nil == {}
Ptr(v) == {v}
IsNil(p) == p = {}
Deref(p) == CHOOSE v \in p : TRUE

NoError == <<>>

RECURSIVE TrimLeft(_)
TrimLeft(s) ==
    IF s # <<>> /\ Head(s) = " " THEN TrimLeft(Tail(s)) ELSE s

RECURSIVE TrimRight(_)
TrimRight(s) ==
    IF s # <<>> /\ s[Len(s)] = " " THEN TrimRight(SubSeq(s, 1, Len(s) - 1)) ELSE s

\* strings.TrimSpace
TrimSpace(s) == TrimRight(TrimLeft(s))

\* strings.Split(s, sep) for a one-character separator: the pieces between
\* the separators, empty pieces included
RECURSIVE SplitFrom(_, _, _)
SplitFrom(s, sep, cur) ==
    IF s = <<>> THEN <<cur>>
    ELSE IF Head(s) = sep THEN <<cur>> \o SplitFrom(Tail(s), sep, <<>>)
    ELSE SplitFrom(Tail(s), sep, Append(cur, Head(s)))

Split(s, sep) == SplitFrom(s, sep, <<>>)

----------------------------------------------------------------------------
(* The universe of the model *)

HrefOrg == <<"h", "/", "o", "/", "1">>
HrefVdc == <<"h", "/", "v", "/", "1">>
Hrefs == {HrefOrg, HrefVdc}
ObjectNames == {<<>>, <<"a">>, <<"b">>}
Keys == {"k1", "k2"}
Values == {"v1", "v2"}

\* type IgnoredMetadata struct
IgnoredMetadataRules ==
    [ObjectType : {Nil, Ptr(<<" ">>), Ptr(<<"o">>)},
     ObjectName : {Nil, Ptr(<<" ">>), Ptr(<<"a">>)},
     KeyRegex   : {Nil, Ptr({"k1"})},
     ValueRegex : {Nil, Ptr({"v1"})}]

\* type normalisedMetadata struct
NormalisedEntries ==
    [ObjectType : {<<"o">>, <<"v">>}, ObjectName : ObjectNames,
     Key : Keys, Value : Values]

SeqsUpTo(S, n) == UNION {[1..k -> S] : k \in 0..n}

RuleLists == SeqsUpTo(IgnoredMetadataRules, MaxRules)

\* The rules of the clients that make calls to the server: every case of
\* ObjectType (nil, blank, set) and of ObjectName (nil, set, blank) occurs,
\* with every combination of the two regular expressions.
CallRules ==
    {r \in IgnoredMetadataRules :
        <<r.ObjectType, r.ObjectName>> \in
            {<<Nil, Nil>>, <<Ptr(<<" ">>), Ptr(<<"a">>)>>, <<Ptr(<<"o">>), Ptr(<<" ">>)>>}}

CallRuleLists == SeqsUpTo(CallRules, MaxRules)

----------------------------------------------------------------------------
(* The ignore filter *)

\* (*regexp.Regexp).MatchString
MatchString(re, s) == s \in re

\* mutant of AllFieldsNil: the rule without any field is not skipped
AllFieldsNilNotSkipped(entryToIgnore) == FALSE

\* the test that skips a rule in both loops: all four pointers are nil
AllFieldsNil(entryToIgnore) ==
    /\ IsNil(entryToIgnore.ObjectType)
    /\ IsNil(entryToIgnore.ObjectName)
    /\ IsNil(entryToIgnore.KeyRegex)
    /\ IsNil(entryToIgnore.ValueRegex)

\* the ObjectType conjunct of both loops
ObjectTypeMatches(entryToIgnore, objectType) ==
    \/ IsNil(entryToIgnore.ObjectType)
    \/ TrimSpace(Deref(entryToIgnore.ObjectType)) = <<>>
    \/ Deref(entryToIgnore.ObjectType) = objectType

\* mutant of ObjectNameMatches: the blank object name of the entry (the
\* ByHref methods) is compared like any other name
ObjectNameMatchesNoBlankEntry(entryToIgnore, name) ==
    \/ IsNil(entryToIgnore.ObjectName)
    \/ TrimSpace(Deref(entryToIgnore.ObjectName)) = <<>>
    \/ Deref(entryToIgnore.ObjectName) = name

\* the ObjectName conjunct of both loops
ObjectNameMatches(entryToIgnore, name) ==
    \/ IsNil(entryToIgnore.ObjectName)
    \/ TrimSpace(Deref(entryToIgnore.ObjectName)) = <<>>
    \/ TrimSpace(name) = <<>>
    \/ Deref(entryToIgnore.ObjectName) = name

\* the KeyRegex conjunct of both loops
KeyRegexMatches(entryToIgnore, key) ==
    IsNil(entryToIgnore.KeyRegex) \/ MatchString(Deref(entryToIgnore.KeyRegex), key)

\* the ValueRegex conjunct of filterSingleGenericMetadataEntry
ValueRegexMatches(entryToIgnore, value) ==
    IsNil(entryToIgnore.ValueRegex) \/ MatchString(Deref(entryToIgnore.ValueRegex), value)

\* the loop of filterSingleGenericMetadataEntry, from rule i on
RECURSIVE filterLoop(_, _, _)
filterLoop(e, metadataToIgnore, i) ==
    IF i > Len(metadataToIgnore) THEN FALSE
    ELSE IF AllFieldsNil(metadataToIgnore[i])
         THEN filterLoop(e, metadataToIgnore, i + 1)
    ELSE IF /\ ObjectTypeMatches(metadataToIgnore[i], e.ObjectType)
            /\ ObjectNameMatches(metadataToIgnore[i], e.ObjectName)
            /\ KeyRegexMatches(metadataToIgnore[i], e.Key)
            /\ ValueRegexMatches(metadataToIgnore[i], e.Value)
         THEN TRUE
    ELSE filterLoop(e, metadataToIgnore, i + 1)

filterSingleGenericMetadataEntry(e, metadataToIgnore) ==
    IF Len(metadataToIgnore) = 0 THEN FALSE
    ELSE filterLoop(e, metadataToIgnore, 1)

----------------------------------------------------------------------------
(* Errors.  The pieces of the messages built by fmt.Errorf. *)

ErrNoObjectType(h) ==
    <<"could not find any object type in the provided HREF '">> \o h \o <<"'">>

ErrEntryIgnored(key, value) ==
    <<"the metadata entry with key '", key, "' and value '", value,
      "' is being ignored">>

ErrCantDelete(key) ==
    <<"can't delete metadata entry ", key, " as it is ignored">>

\* what the server answers when the entry or object asked for does not exist
ErrHttp(prefix) == <<prefix, "API Error: 404">>

\* strings.Contains(err.Error(), "ignored"): the word is in one of the
\* pieces of the message, or in the characters of a string the message was
\* formatted with
ContainsIgnored(err) ==
    \/ \E i \in 1..Len(err) : err[i] \in {"' is being ignored", " as it is ignored"}
    \/ \E i \in 1..(Len(err) - 6) :
          SubSeq(err, i, i + 6) = <<"i", "g", "n", "o", "r", "e", "d">>

----------------------------------------------------------------------------
(* Normalisation *)

\* getMetadataObjectTypeFromHref: the last but one part of the HREF
getMetadataObjectTypeFromHref(h) ==
    LET splitHref == Split(h, "/")
    IN  IF Len(splitHref) < 2
        THEN [objectType |-> <<>>, err |-> ErrNoObjectType(h)]
        ELSE [objectType |-> splitHref[Len(splitHref) - 1], err |-> NoError]

\* normaliseXmlMetadata
normaliseXmlMetadata(key, h, name, value) ==
    LET t == getMetadataObjectTypeFromHref(h)
    IN  IF t.err # NoError
        THEN [entry |-> Nil, err |-> t.err]
        ELSE [entry |-> Ptr([ObjectType |-> t.objectType, ObjectName |-> name,
                              Key |-> key, Value |-> value]),
              err |-> NoError]

\* mutant of filterSingleXmlMetadataEntry: no entry is ignored
filterSingleXmlMetadataEntryKeepsAll(key, h, name, value, metadataToIgnore) ==
    [value |-> Ptr(value), err |-> NoError]

\* filterSingleXmlMetadataEntry: the entry's value, or the error that says it
\* is ignored
filterSingleXmlMetadataEntry(key, h, name, value, metadataToIgnore) ==
    LET n == normaliseXmlMetadata(key, h, name, value)
    IN  IF n.err # NoError THEN [value |-> Nil, err |-> n.err]
        ELSE IF filterSingleGenericMetadataEntry(Deref(n.entry), metadataToIgnore)
        THEN [value |-> Nil, err |-> ErrEntryIgnored(key, value)]
        ELSE [value |-> Ptr(value), err |-> NoError]

\* the loop of filterXmlMetadata over allMetadata.MetadataEntry, from entry i
\* on, with the entries kept so far.  object tells which structure the
\* pointer returned points to: "result" is the one the function allocates,
\* "allMetadata" the one it was passed
RECURSIVE filterXmlLoop(_, _, _, _, _, _)
filterXmlLoop(entries, h, name, metadataToIgnore, i, filteredMetadata) ==
    IF i > Len(entries)
    THEN [out |-> Ptr(filteredMetadata), err |-> NoError, object |-> "result"]
    ELSE LET r == filterSingleXmlMetadataEntry(entries[i].Key, h, name,
                                               entries[i].Value, metadataToIgnore)
         IN  IF r.err # NoError
             THEN IF ContainsIgnored(r.err)
                  THEN filterXmlLoop(entries, h, name, metadataToIgnore, i + 1,
                                     filteredMetadata)
                  ELSE [out |-> Nil, err |-> r.err, object |-> "nil"]
             ELSE filterXmlLoop(entries, h, name, metadataToIgnore, i + 1,
                                Append(filteredMetadata, entries[i]))

\* mutant of filterXmlMetadata: every entry is kept
filterXmlMetadataKeepsAll(allMetadata, h, name, metadataToIgnore) ==
    [out |-> Ptr(allMetadata), err |-> NoError, object |-> "allMetadata"]

\* filterXmlMetadata
filterXmlMetadata(allMetadata, h, name, metadataToIgnore) ==
    IF Len(metadataToIgnore) = 0
    THEN [out |-> Ptr(allMetadata), err |-> NoError, object |-> "allMetadata"]
    ELSE filterXmlLoop(allMetadata, h, name, metadataToIgnore, 1, <<>>)

----------------------------------------------------------------------------
(* The server, as seen through Client.ExecuteRequest.  What it holds is an  *)
(* input of each call: the list of entries of the object for a GET of       *)
(* .../metadata/, the value stored under a key (or Absent) for a GET of     *)
(* .../metadata/[SYSTEM/]key.                                               *)

\* an answer is a pointer: nil when the server answered with an error
Absent == Nil
Answers(S) == {Absent} \cup {Ptr(x) : x \in S}

MetadataEntries == [Key : Keys, Value : Values]

\* the lists of entries a server can send: keys are unique
ServerLists ==
    {l \in SeqsUpTo(MetadataEntries, Cardinality(Keys)) :
        \A i, j \in 1..Len(l) : l[i].Key = l[j].Key => i = j}

MetadataPath(key, isSystem) ==
    IF isSystem THEN <<"metadata", "SYSTEM", key>> ELSE <<"metadata", key>>

Request(method, h, path) == [method |-> method, href |-> h, path |-> path]

----------------------------------------------------------------------------
(* The generic metadata calls *)

\* mutant of getMetadataByKey: the value fetched is returned unfiltered
getMetadataByKeyUnfiltered(client, h, name, key, isSystem, stored) ==
    LET req == Request("GET", h, MetadataPath(key, isSystem))
    IN  IF stored = Absent
        THEN [value |-> Nil, err |-> ErrHttp("error retrieving metadata by key "),
              requests |-> <<req>>]
        ELSE [value |-> stored, err |-> NoError, requests |-> <<req>>]

\* mutant of getMetadataByKey: the value fetched is returned together with
\* the error of the filter
getMetadataByKeyReturnsValue(client, h, name, key, isSystem, stored) ==
    LET req == Request("GET", h, MetadataPath(key, isSystem))
    IN  IF stored = Absent
        THEN [value |-> Nil, err |-> ErrHttp("error retrieving metadata by key "),
              requests |-> <<req>>]
        ELSE LET r == filterSingleXmlMetadataEntry(key, h, name, Deref(stored),
                                                   client.IgnoredMetadata)
             IN  [value |-> stored, err |-> r.err, requests |-> <<req>>]

\* getMetadataByKey
getMetadataByKey(client, h, name, key, isSystem, stored) ==
    LET req == Request("GET", h, MetadataPath(key, isSystem))
    IN  IF stored = Absent
        THEN [value |-> Nil, err |-> ErrHttp("error retrieving metadata by key "),
              requests |-> <<req>>]
        ELSE LET r == filterSingleXmlMetadataEntry(key, h, name, Deref(stored),
                                                   client.IgnoredMetadata)
             IN  [value |-> r.value, err |-> r.err, requests |-> <<req>>]

\* getMetadata
getMetadata(client, h, name, response) ==
    LET req == Request("GET", h, <<"metadata">>)
    IN  IF response = Absent
        THEN [out |-> Nil, err |-> ErrHttp("error retrieving metadata: "),
              requests |-> <<req>>]
        ELSE LET r == filterXmlMetadata(Deref(response), h, name,
                                        client.IgnoredMetadata)
             IN  [out |-> r.out, err |-> r.err, requests |-> <<req>>]

\* the loop of filterMetadataToDelete, from rule i on
RECURSIVE deleteLoop(_, _, _, _, _, _, _, _, _)
deleteLoop(client, key, h, name, isSystem, stored, objectType, metadataToIgnore, i) ==
    IF i > Len(metadataToIgnore) THEN [err |-> NoError, requests |-> <<>>]
    ELSE LET entryToIgnore == metadataToIgnore[i]
         IN  IF AllFieldsNil(entryToIgnore)
             THEN deleteLoop(client, key, h, name, isSystem, stored, objectType,
                             metadataToIgnore, i + 1)
             ELSE IF /\ ObjectTypeMatches(entryToIgnore, objectType)
                     /\ ObjectNameMatches(entryToIgnore, name)
                     /\ KeyRegexMatches(entryToIgnore, key)
             THEN IF ~IsNil(entryToIgnore.ValueRegex)
                  THEN LET g == getMetadataByKey(client, h, name, key, isSystem, stored)
                       IN  IF g.err # NoError
                           THEN [err |-> g.err, requests |-> g.requests]
                           ELSE IF ~MatchString(Deref(entryToIgnore.ValueRegex),
                                                Deref(g.value))
                           THEN [err |-> NoError, requests |-> g.requests]
                           ELSE [err |-> ErrCantDelete(key), requests |-> g.requests]
                  ELSE [err |-> ErrCantDelete(key), requests |-> <<>>]
             ELSE deleteLoop(client, key, h, name, isSystem, stored, objectType,
                             metadataToIgnore, i + 1)

\* filterMetadataToDelete
filterMetadataToDelete(client, key, h, name, isSystem, stored, metadataToIgnore) ==
    IF Len(metadataToIgnore) = 0 THEN [err |-> NoError, requests |-> <<>>]
    ELSE LET t == getMetadataObjectTypeFromHref(h)
         IN  IF t.err # NoError THEN [err |-> t.err, requests |-> <<>>]
             ELSE deleteLoop(client, key, h, name, isSystem, stored, t.objectType,
                             metadataToIgnore, 1)

\* deleteMetadata: the error of the filter, or the answer to the DELETE
deleteMetadata(client, h, name, key, isSystem, stored) ==
    LET f == filterMetadataToDelete(client, key, h, name, isSystem, stored,
                                    client.IgnoredMetadata)
        req == Request("DELETE", h, MetadataPath(key, isSystem))
    IN  IF f.err # NoError THEN [task |-> Nil, err |-> f.err, requests |-> f.requests]
        ELSE IF stored = Absent
        THEN [task |-> Nil, err |-> ErrHttp("error deleting metadata: "),
              requests |-> Append(f.requests, req)]
        ELSE [task |-> Ptr(req), err |-> NoError,
              requests |-> Append(f.requests, req)]

----------------------------------------------------------------------------
(* The calls that write.  The answer of the server to the request of a     *)
(* task is an input: "task" when it accepts the request, "error" when it   *)
(* refuses it, "visibility" when it refuses it with a message that ends in *)
(* "visibility".                                                           *)

ServerAnswers == {"task", "error", "visibility"}

\* types.MetadataReadWriteVisibility, MetadataReadOnlyVisibility,
\* MetadataHiddenVisibility
Visibilities == {"READWRITE", "READONLY", "PRIVATE"}

\* types.MetadataStringValue
TypedValues == {"MetadataStringValue"}

RequestWithBody(method, h, path, body) ==
    [method |-> method, href |-> h, path |-> path, body |-> body]

\* the return of Client.ExecuteTaskRequest for the request req
ExecuteTaskRequest(req, answer, prefix) ==
    IF answer = "task" THEN [task |-> Ptr(req), err |-> NoError]
    ELSE IF answer = "visibility"
    THEN [task |-> Nil, err |-> <<prefix, "API Error: 500: ", "visibility">>]
    ELSE [task |-> Nil, err |-> <<prefix, "API Error: 400">>]

\* strings.HasSuffix(err.Error(), "visibility"), piece by piece
HasSuffixVisibility(err) == err # <<>> /\ err[Len(err)] = "visibility"

\* mutant of MetadataDomainTag: the visibility of the caller is kept in the
\* GENERAL domain
MetadataDomainTagKeepsVisibility(visibility, isSystem) ==
    [Visibility |-> visibility,
     Domain |-> IF isSystem THEN "SYSTEM" ELSE "GENERAL"]

\* newMetadata.Domain as addMetadata sets it
MetadataDomainTag(visibility, isSystem) ==
    IF isSystem
    THEN [Visibility |-> visibility, Domain |-> "SYSTEM"]
    ELSE [Visibility |-> IF visibility # "READWRITE" THEN "READWRITE" ELSE visibility,
          Domain |-> "GENERAL"]

\* addMetadata
addMetadata(client, h, name, key, value, typedValue, visibility, isSystem, answer) ==
    LET newMetadata == [TypedValue |-> [XsiType |-> typedValue, Value |-> value],
                        Domain |-> MetadataDomainTag(visibility, isSystem)]
        req == RequestWithBody("PUT", h, MetadataPath(key, isSystem), newMetadata)
        f == filterSingleXmlMetadataEntry(key, h, name, value, client.IgnoredMetadata)
        domain == newMetadata.Domain.Visibility
        r == ExecuteTaskRequest(req, answer, "error adding metadata: ")
    IN  IF f.err # NoError THEN [task |-> Nil, err |-> f.err, requests |-> <<>>]
        ELSE IF r.err # NoError /\ HasSuffixVisibility(r.err)
        THEN [task |-> r.task,
              err |-> <<"error adding metadata with key ", key,
                        ": visibility cannot be ", visibility,
                        " when domain is ", domain, ": ">> \o r.err,
              requests |-> <<req>>]
        ELSE [task |-> r.task, err |-> r.err, requests |-> <<req>>]

ErrNothingToMerge == <<"after filtering metadata, there is no metadata to merge">>

\* mutant of mergeAllMetadata: the request is sent also when no entry is left
mergeAllMetadataSendsEmpty(client, h, name, metadataToMerge, answer) ==
    LET f == filterXmlMetadata(metadataToMerge, h, name, client.IgnoredMetadata)
        req == RequestWithBody("POST", h, <<"metadata">>, Deref(f.out))
        r == ExecuteTaskRequest(req, answer, "error merging metadata: ")
    IN  IF f.err # NoError THEN [task |-> Nil, err |-> f.err, requests |-> <<>>]
        ELSE [task |-> r.task, err |-> r.err, requests |-> <<req>>]

\* mergeAllMetadata; metadataToMerge is the list the loop over the map has
\* built, in the order in which the map was ranged over
mergeAllMetadata(client, h, name, metadataToMerge, answer) ==
    LET f == filterXmlMetadata(metadataToMerge, h, name, client.IgnoredMetadata)
        req == RequestWithBody("POST", h, <<"metadata">>, Deref(f.out))
        r == ExecuteTaskRequest(req, answer, "error merging metadata: ")
    IN  IF f.err # NoError THEN [task |-> Nil, err |-> f.err, requests |-> <<>>]
        ELSE IF Len(Deref(f.out)) = 0
        THEN [task |-> Nil, err |-> ErrNothingToMerge, requests |-> <<>>]
        ELSE [task |-> r.task, err |-> r.err, requests |-> <<req>>]

\* addMetadataDeprecated
addMetadataDeprecated(client, typedValue, key, value, h, answer) ==
    LET newMetadata == [TypedValue |-> [XsiType |-> typedValue, Value |-> value]]
        req == RequestWithBody("PUT", h, <<"metadata", key>>, newMetadata)
        r == ExecuteTaskRequest(req, answer, "error adding metadata: ")
    IN  [task |-> r.task, err |-> r.err, requests |-> <<req>>]

\* mutant of mergeAllMetadataDeprecated: only the first entry is sent
mergeAllMetadataDeprecatedFirstOnly(client, typedValue, metadataToMerge, h, answer) ==
    LET req == RequestWithBody("POST", h, <<"metadata">>, IF metadataToMerge = <<>> THEN <<>>
                               ELSE <<Head(metadataToMerge)>>)
        r == ExecuteTaskRequest(req, answer, "error adding metadata: ")
    IN  [task |-> r.task, err |-> r.err, requests |-> <<req>>]

\* mergeAllMetadataDeprecated
mergeAllMetadataDeprecated(client, typedValue, metadataToMerge, h, answer) ==
    LET req == RequestWithBody("POST", h, <<"metadata">>, metadataToMerge)
        r == ExecuteTaskRequest(req, answer, "error adding metadata: ")
    IN  [task |-> r.task, err |-> r.err, requests |-> <<req>>]

----------------------------------------------------------------------------
(* The calls as steps.  One call is made on a client whose rules were set  *)
(* at construction.                                                        *)

Idle == [op |-> "none"]

\* the *Client the calls receive
Client == [IgnoredMetadata |-> IgnoredMetadata]

Booleans == {TRUE, FALSE}

NoTask == [status |-> "none", message |-> ""]
NotWaiting == [pc |-> "none"]
NotFetching == [pc |-> "none"]
NoCall == [pc |-> "none"]

InitFilter ==
    /\ IgnoredMetadata \in RuleLists
    /\ ret = Idle
    /\ task = NoTask
    /\ server = <<>>
    /\ call = NoCall
    /\ wait = NotWaiting
    /\ pages = <<>>
    /\ fetch = NotFetching

\* one call of filterSingleGenericMetadataEntry
FilterEntry ==
    /\ ret = Idle
    /\ \E e \in NormalisedEntries :
          ret' = [op |-> "filter", entry |-> e,
                  isFiltered |-> filterSingleGenericMetadataEntry(e, IgnoredMetadata)]
    /\ UNCHANGED <<IgnoredMetadata, task, wait, pages, fetch, server, call>>

NextFilter == FilterEntry

SpecFilter == InitFilter /\ [][NextFilter]_vars

Init ==
    /\ IgnoredMetadata \in CallRuleLists
    /\ ret = Idle
    /\ task = NoTask
    /\ server = <<>>
    /\ call = NoCall
    /\ wait = NotWaiting
    /\ pages = <<>>
    /\ fetch = NotFetching

\* one call of getMetadata; the server answers with a list or with an error
GetMetadata ==
    /\ ret = Idle
    /\ \E h \in Hrefs, name \in ObjectNames, response \in Answers(ServerLists) :
          ret' = [op |-> "getMetadata", href |-> h, name |-> name,
                  response |-> response,
                  res |-> getMetadata(Client, h, name, response)]
    /\ UNCHANGED <<IgnoredMetadata, task, wait, pages, fetch, server, call>>

\* one call of deleteMetadata; the server holds stored under the key
DeleteMetadata ==
    /\ ret = Idle
    /\ \E h \in Hrefs, name \in ObjectNames, key \in Keys, isSystem \in Booleans,
          stored \in Answers(Values) :
          ret' = [op |-> "deleteMetadata", href |-> h, name |-> name, key |-> key,
                  isSystem |-> isSystem, stored |-> stored,
                  res |-> deleteMetadata(Client, h, name, key, isSystem, stored)]
    /\ UNCHANGED <<IgnoredMetadata, task, wait, pages, fetch, server, call>>

Next == GetMetadata \/ DeleteMetadata

Spec == Init /\ [][Next]_vars

InitWrite ==
    /\ IgnoredMetadata \in CallRuleLists
    /\ ret = Idle
    /\ task = NoTask
    /\ server = <<>>
    /\ call = NoCall
    /\ wait = NotWaiting
    /\ pages = <<>>
    /\ fetch = NotFetching

\* one call of addMetadata; the server answers the PUT with answer
AddMetadata ==
    /\ ret = Idle
    /\ \E h \in Hrefs, name \in {<<>>, <<"a">>}, key \in Keys, value \in Values,
          typedValue \in TypedValues, visibility \in Visibilities,
          isSystem \in Booleans, answer \in ServerAnswers :
          ret' = [op |-> "addMetadata", href |-> h, name |-> name, key |-> key,
                  value |-> value, visibility |-> visibility, isSystem |-> isSystem,
                  answer |-> answer,
                  res |-> addMetadata(Client, h, name, key, value, typedValue,
                                      visibility, isSystem, answer)]
    /\ UNCHANGED <<IgnoredMetadata, task, wait, pages, fetch, server, call>>

\* one call of mergeAllMetadata; metadataToMerge holds the entries of the
\* map in the order in which the loop ranged over it
MergeAllMetadata ==
    /\ ret = Idle
    /\ \E h \in Hrefs, name \in {<<>>, <<"a">>}, metadataToMerge \in ServerLists,
          answer \in ServerAnswers :
          ret' = [op |-> "mergeAllMetadata", href |-> h, name |-> name,
                  metadata |-> metadataToMerge, answer |-> answer,
                  res |-> mergeAllMetadata(Client, h, name, metadataToMerge, answer)]
    /\ UNCHANGED <<IgnoredMetadata, task, wait, pages, fetch, server, call>>

\* one call of filterXmlMetadata on a list of entries
FilterXmlMetadata ==
    /\ ret = Idle
    /\ \E h \in Hrefs, name \in {<<>>, <<"a">>}, allMetadata \in ServerLists :
          ret' = [op |-> "filterXmlMetadata", href |-> h, name |-> name,
                  allMetadata |-> allMetadata,
                  res |-> filterXmlMetadata(allMetadata, h, name, IgnoredMetadata)]
    /\ UNCHANGED <<IgnoredMetadata, task, wait, pages, fetch, server, call>>

NextWrite == AddMetadata \/ MergeAllMetadata \/ FilterXmlMetadata

SpecWrite == InitWrite /\ [][NextWrite]_vars

\* one call of getMetadataByKey; the server holds stored under the key
GetMetadataByKey ==
    /\ ret = Idle
    /\ \E h \in Hrefs, name \in {<<>>, <<"a">>}, key \in Keys, isSystem \in Booleans,
          stored \in Answers(Values) :
          ret' = [op |-> "getMetadataByKey", href |-> h, name |-> name, key |-> key,
                  isSystem |-> isSystem, stored |-> stored,
                  res |-> getMetadataByKey(Client, h, name, key, isSystem, stored)]
    /\ UNCHANGED <<IgnoredMetadata, task, wait, pages, fetch, server, call>>

\* The HREFs the ByHref methods are called with, each with the object type
\* it was written with (Nil when it has less than two parts):
\* <prefix>/<type>/<id>, <type>/<id>, and strings without any "/"
TypedHref(prefix, type, id) == prefix \o <<"/">> \o type \o <<"/">> \o id

HrefPrefixes == {<<"h">>, <<"h", "/", "a">>}
HrefTypes == {<<"o">>, <<"v">>}
HrefNoParts == {<<>>, <<"h">>, <<"i", "g", "n", "o", "r", "e", "d">>}

ByHrefInputs ==
    {[href |-> TypedHref(prefix, type, <<"1">>), form |-> "prefix/type/id",
      type |-> Ptr(type)] : prefix \in HrefPrefixes, type \in HrefTypes}
    \cup {[href |-> type \o <<"/", "1">>, form |-> "type/id", type |-> Ptr(type)] :
            type \in HrefTypes}
    \cup {[href |-> h, form |-> "id", type |-> Nil] : h \in HrefNoParts}

\* one call of normaliseXmlMetadata, as made for every entry that is filtered
NormaliseXmlMetadata ==
    /\ ret = Idle
    /\ \E in \in ByHrefInputs, key \in Keys, value \in Values :
          ret' = [op |-> "normaliseXmlMetadata", href |-> in.href, form |-> in.form,
                  type |-> in.type, key |-> key, value |-> value,
                  res |-> normaliseXmlMetadata(key, in.href, <<>>, value)]
    /\ UNCHANGED <<IgnoredMetadata, task, wait, pages, fetch, server, call>>

\* one call of VCDClient.MergeMetadataWithVisibilityByHrefAsync; filtered is
\* what filterXmlMetadata returns to mergeAllMetadata in that call
MergeMetadataWithVisibilityByHrefAsync ==
    /\ ret = Idle
    /\ \E in \in ByHrefInputs, metadata \in ServerLists, answer \in {"task", "error"} :
          ret' = [op |-> "MergeMetadataWithVisibilityByHrefAsync", href |-> in.href,
                  form |-> in.form, type |-> in.type, metadata |-> metadata,
                  answer |-> answer,
                  filtered |-> filterXmlMetadata(metadata, in.href, <<>>,
                                                 Client.IgnoredMetadata),
                  res |-> mergeAllMetadata(Client, in.href, <<>>, metadata, answer)]
    /\ UNCHANGED <<IgnoredMetadata, task, wait, pages, fetch, server, call>>

\* one call of VCDClient.AddMetadataEntryWithVisibilityByHrefAsync
AddMetadataEntryWithVisibilityByHrefAsync ==
    /\ ret = Idle
    /\ \E in \in ByHrefInputs, key \in Keys, value \in Values,
          typedValue \in TypedValues, isSystem \in Booleans, answer \in {"task", "error"} :
          ret' = [op |-> "AddMetadataEntryWithVisibilityByHrefAsync", href |-> in.href,
                  form |-> in.form, type |-> in.type, key |-> key, value |-> value,
                  isSystem |-> isSystem, answer |-> answer,
                  res |-> addMetadata(Client, in.href, <<>>, key, value, typedValue,
                                      "READWRITE", isSystem, answer)]
    /\ UNCHANGED <<IgnoredMetadata, task, wait, pages, fetch, server, call>>

NextRead ==
    \/ GetMetadataByKey
    \/ NormaliseXmlMetadata
    \/ MergeMetadataWithVisibilityByHrefAsync
    \/ AddMetadataEntryWithVisibilityByHrefAsync

SpecRead == InitWrite /\ [][NextRead]_vars

----------------------------------------------------------------------------
(* Tasks and the wait helpers.  A helper sends the request that creates a  *)
(* task, waits for the task with Task.WaitTaskCompletion and, in some of  *)
(* them, refreshes the object.  WaitTaskCompletion polls the task          *)
(* until its status is terminal or the maximum duration has elapsed; time  *)
(* is counted in polling intervals.                                        *)

TaskMessages == {"m1", "m2"}

WaitHelpers ==
    {"addMetadataAndWait", "mergeMetadataAndWait", "deleteMetadataAndWait",
     "CreateVdcWait", "updateVdcV97", "AddStorageProfileWait",
     "RemoveStorageProfileWait"}

\* mutant of isTaskRunning: a canceled task counts as still running
isTaskRunningAlsoCanceled(status) == status \in {"queued", "running", "canceled"}

\* the statuses in which a task is not finished
isTaskRunning(status) == status \in {"queued", "running"}

\* the error of WaitTaskCompletion for a task that failed: the task's message
TaskError(t) == <<t.message>>

ErrTimeout == <<"timeout waiting for the task">>

ErrRequest == <<"error sending the request">>

ErrRefresh == <<"error refreshing the object">>

\* mutant of TimedOut: no maximum duration
TimedOutNever(elapsed) == FALSE

\* the maximum duration has elapsed
TimedOut(elapsed) == elapsed >= MaxWait

\* mutant of WaitError: CreateVdcWait reports its own message only
WaitErrorWithoutCause(helper, err) ==
    IF helper = "CreateVdcWait" THEN <<"couldn't finish creating VDC">> ELSE err

\* what a helper returns when WaitTaskCompletion returned err: CreateVdcWait
\* wraps it, the others hand it on
WaitError(helper, err) ==
    IF helper = "CreateVdcWait" THEN <<"couldn't finish creating VDC ">> \o err ELSE err

\* the helpers that refresh the object after the wait
Refreshes(helper) ==
    helper \in {"updateVdcV97", "AddStorageProfileWait", "RemoveStorageProfileWait"}

\* mutant of AfterWait: the object is refreshed whatever the wait returned
AfterWaitRefreshesAnyway(helper, waitErr) ==
    IF Refreshes(helper) THEN "refresh" ELSE "done"

\* where a helper goes when WaitTaskCompletion has returned waitErr: it
\* returns on an error, and otherwise refreshes if it is one that does
AfterWait(helper, waitErr) ==
    IF waitErr # NoError THEN "done"
    ELSE IF Refreshes(helper) THEN "refresh" ELSE "done"

\* a step of a helper that has returned, with the error it returned
Step(name, err) == [step |-> name, err |-> err]

InitTask ==
    /\ IgnoredMetadata = <<>>
    /\ ret = Idle
    /\ task = NoTask
    /\ server = <<>>
    /\ call = NoCall
    /\ wait \in [helper : WaitHelpers, pc : {"request"}, polls : {0}, elapsed : {0},
                 last : {"none"}, waitErr : {NoError}, err : {NoError},
                 steps : {<<>>}]
    /\ pages = <<>>
    /\ fetch = NotFetching

\* the request of the helper is accepted: the server creates the task
RequestAccepted ==
    /\ wait.pc = "request"
    /\ task' = [status |-> "queued", message |-> ""]
    /\ wait' = [wait EXCEPT !.pc = "wait",
                            !.steps = Append(@, Step("request", NoError))]
    /\ UNCHANGED <<IgnoredMetadata, ret, pages, fetch, server, call>>

\* the request fails: the helper returns its error and waits for nothing
RequestFails ==
    /\ wait.pc = "request"
    /\ wait' = [wait EXCEPT !.pc = "done", !.err = ErrRequest,
                            !.steps = Append(@, Step("request", ErrRequest))]
    /\ UNCHANGED <<IgnoredMetadata, ret, task, pages, fetch, server, call>>

\* the server starts the task
TaskStarts ==
    /\ task.status = "queued"
    /\ task' = [task EXCEPT !.status = "running"]
    /\ UNCHANGED <<IgnoredMetadata, ret, wait, pages, fetch, server, call>>

\* the server ends the task with success
TaskSucceeds ==
    /\ task.status = "running"
    /\ task' = [task EXCEPT !.status = "success"]
    /\ UNCHANGED <<IgnoredMetadata, ret, wait, pages, fetch, server, call>>

\* the server ends the task in a failure state, with its error message
TaskFails ==
    /\ task.status = "running"
    /\ \E s \in {"error", "canceled", "aborted"}, m \in TaskMessages :
          task' = [status |-> s, message |-> m]
    /\ UNCHANGED <<IgnoredMetadata, ret, wait, pages, fetch, server, call>>

\* a poll of WaitTaskCompletion that finds the task unfinished: sleep
PollRunning ==
    /\ wait.pc = "wait"
    /\ ~TimedOut(wait.elapsed)
    /\ isTaskRunning(task.status)
    /\ wait' = [wait EXCEPT !.polls = IF @ < MaxWait THEN @ + 1 ELSE @,
                            !.elapsed = IF @ < MaxWait THEN @ + 1 ELSE @,
                            !.last = task.status]
    /\ UNCHANGED <<IgnoredMetadata, ret, task, pages, fetch, server, call>>

\* a poll that finds the task finished: WaitTaskCompletion returns, and the
\* helper returns or goes on to refresh
PollFinished ==
    /\ wait.pc = "wait"
    /\ ~TimedOut(wait.elapsed)
    /\ ~isTaskRunning(task.status)
    /\ LET waitErr == IF task.status = "success" THEN NoError ELSE TaskError(task)
       IN  wait' = [wait EXCEPT
                !.polls = IF @ < MaxWait THEN @ + 1 ELSE @,
                !.last = task.status,
                !.waitErr = waitErr,
                !.err = IF waitErr = NoError THEN NoError
                        ELSE WaitError(wait.helper, waitErr),
                !.pc = AfterWait(wait.helper, waitErr),
                !.steps = Append(@, Step("wait", waitErr))]
    /\ UNCHANGED <<IgnoredMetadata, ret, task, pages, fetch, server, call>>

\* the maximum duration has elapsed: WaitTaskCompletion gives up
PollTimesOut ==
    /\ wait.pc = "wait"
    /\ TimedOut(wait.elapsed)
    /\ wait' = [wait EXCEPT !.waitErr = ErrTimeout,
                            !.err = WaitError(wait.helper, ErrTimeout),
                            !.pc = AfterWait(wait.helper, ErrTimeout),
                            !.steps = Append(@, Step("wait", ErrTimeout))]
    /\ UNCHANGED <<IgnoredMetadata, ret, task, pages, fetch, server, call>>

\* the refresh that ends updateVdcV97, AddStorageProfileWait and
\* RemoveStorageProfileWait
Refresh ==
    /\ wait.pc = "refresh"
    /\ \E e \in {NoError, ErrRefresh} :
          wait' = [wait EXCEPT !.pc = "done", !.err = e,
                              !.steps = Append(@, Step("refresh", e))]
    /\ UNCHANGED <<IgnoredMetadata, ret, task, pages, fetch, server, call>>

Poll == PollRunning \/ PollFinished \/ PollTimesOut

NextTask ==
    \/ RequestAccepted
    \/ RequestFails
    \/ TaskStarts
    \/ TaskSucceeds
    \/ TaskFails
    \/ PollRunning
    \/ PollFinished
    \/ PollTimesOut
    \/ Refresh

SpecTask == InitTask /\ [][NextTask]_vars

\* the helper's loop runs on its own; the server owes nothing
SpecTaskFair == SpecTask /\ WF_vars(Poll)

----------------------------------------------------------------------------
(* Lists.  getAllRights and queryCatalogItemFilteredList ask a helper      *)
(* (Client.OpenApiGetAllItems, Client.cumulativeQuery) for all the items   *)
(* of a list; the helper requests the pages one after another, following   *)
(* the link to the next page, and hands back the items of all of them.     *)

Items == {"x", "y"}

PageItems == {<<>>, <<"x">>, <<"y">>, <<"x", "y">>}

Pages == [items : PageItems, next : BOOLEAN]

\* the lists of pages a server can hold: the last page has no next link
PageLists ==
    {l \in SeqsUpTo(Pages, MaxPages) : Len(l) >= 1 /\ ~l[Len(l)].next}

ListCallers == {"getAllRights", "queryCatalogItemFilteredList"}

\* the one empty item that getAllRights hands to the helper
EmptyRight == ""

ErrPage == <<"error getting the page">>

ErrEndpoint == <<"endpoint not supported">>

\* mutant of HasNextPage: only the first page is read
HasNextPageNever(page) == FALSE

\* the page holds a link to a next page
HasNextPage(page) == page.next

\* mutant of getAllRights: the items held are returned with the error
getAllRightsKeepsItems(typeResponses, err) ==
    [out |-> Ptr(typeResponses), err |-> err]

\* getAllRights after the call of the helper: typeResponses is what the
\* helper left, err what it returned
getAllRights(typeResponses, err) ==
    IF err # NoError
    THEN [out |-> Nil, err |-> err]
    ELSE [out |-> Ptr(typeResponses), err |-> NoError]

\* queryCatalogItemFilteredList after the call of the helper
queryCatalogItemFilteredList(results, err) ==
    IF err # NoError
    THEN [out |-> Nil, err |-> <<"error querying catalog items ">> \o err]
    ELSE [out |-> Ptr(results), err |-> NoError]

ListResult(caller, items, err) ==
    IF caller = "getAllRights"
    THEN getAllRights(items, err)
    ELSE queryCatalogItemFilteredList(items, err)

InitList ==
    /\ IgnoredMetadata = <<>>
    /\ ret = Idle
    /\ task = NoTask
    /\ server = <<>>
    /\ call = NoCall
    /\ wait = NotWaiting
    /\ pages \in PageLists
    /\ fetch \in [caller : ListCallers, pc : {"fetch"}, cur : {1}, acc : {<<>>},
                  requested : {<<>>}, failed : {FALSE}, out : {Nil}, err : {NoError}]

\* getAllRights fails before it calls the helper
EndpointFails ==
    /\ fetch.pc = "fetch"
    /\ fetch.caller = "getAllRights"
    /\ fetch.requested = <<>>
    /\ fetch' = [fetch EXCEPT !.pc = "done", !.out = Nil, !.err = ErrEndpoint]
    /\ UNCHANGED <<IgnoredMetadata, ret, task, wait, pages, server, call>>

\* the helper gets a page that links to a next page
PageWithNext ==
    /\ fetch.pc = "fetch"
    /\ HasNextPage(pages[fetch.cur])
    /\ fetch' = [fetch EXCEPT !.acc = @ \o pages[fetch.cur].items,
                              !.requested = Append(@, fetch.cur),
                              !.cur = @ + 1]
    /\ UNCHANGED <<IgnoredMetadata, ret, task, wait, pages, server, call>>

\* the helper gets a page without a next link: it returns the items
LastPage ==
    /\ fetch.pc = "fetch"
    /\ ~HasNextPage(pages[fetch.cur])
    /\ LET items == fetch.acc \o pages[fetch.cur].items
           res == ListResult(fetch.caller, items, NoError)
       IN  fetch' = [fetch EXCEPT !.acc = items,
                                  !.requested = Append(@, fetch.cur),
                                  !.pc = "done",
                                  !.out = res.out,
                                  !.err = res.err]
    /\ UNCHANGED <<IgnoredMetadata, ret, task, wait, pages, server, call>>

\* the request of a page fails: the helper returns the error; what it has
\* left in the caller's list is the list it was given or the items so far
PageFails ==
    /\ fetch.pc = "fetch"
    /\ \E held \in {<<EmptyRight>>, fetch.acc} :
          LET res == ListResult(fetch.caller, held, ErrPage)
          IN  fetch' = [fetch EXCEPT !.requested = Append(@, fetch.cur),
                                     !.failed = TRUE,
                                     !.pc = "done",
                                     !.out = res.out,
                                     !.err = res.err]
    /\ UNCHANGED <<IgnoredMetadata, ret, task, wait, pages, server, call>>

NextList == EndpointFails \/ PageWithNext \/ LastPage \/ PageFails

SpecList == InitList /\ [][NextList]_vars

----------------------------------------------------------------------------
(* Lookups by name.  The server holds a list of entities; a lookup asks    *)
(* for the list, filtered by the server (name==...) or whole, and decides  *)
(* on what it got.  A request can fail.                                    *)

EntityNames == {<<"a">>, <<"b">>, <<"a", ",", "b">>}

\* the lists of entities a server can hold; an entity is its place and name
EntityLists ==
    {[i \in 1..Len(l) |-> [id |-> i, name |-> l[i]]] : l \in SeqsUpTo(EntityNames, MaxEntities)}

Contains(s, c) == \E i \in 1..Len(s) : s[i] = c

\* url.QueryEscape, on the characters of the names
QueryEscape(s) ==
    [i \in 1..Len(s) |->
        CASE s[i] = "," -> "%2C"
          [] s[i] = ";" -> "%3B"
          [] s[i] = " " -> "+"
          [] OTHER -> s[i]]

\* the server's reading of an encoded filter value
ServerUnescape(s) ==
    [i \in 1..Len(s) |->
        CASE s[i] = "%2C" -> ","
          [] s[i] = "%3B" -> ";"
          [] OTHER -> s[i]]

\* the server's answer to a list request: without a filter all entities,
\* with the filter name==value those of that name
ServerQuery(entities, filter) ==
    IF IsNil(filter)
    THEN entities
    ELSE SelectSeq(entities, LAMBDA e : e.name = Deref(filter))

ErrorEntityNotFound == <<"entity not found">>

ErrMoreThanOne(what, name) == <<"more than one ", what, " found with name '">> \o name \o <<"'">>

ErrQuery == <<"error sending the query">>

NotFound == [out |-> Nil, err |-> ErrorEntityNotFound]

\* the search fetches everything and compares: the name holds a comma, a
\* semicolon, an asterisk or a space; otherwise the filter is alias==name
shouldDoSlowSearch(name) ==
    LET slowSearch == \/ Contains(name, ",")
                      \/ Contains(name, ";")
                      \/ Contains(name, "*")
                      \/ Contains(name, " ")
    IN  [slowSearch |-> slowSearch,
         params |-> IF slowSearch THEN Nil ELSE Ptr(QueryEscape(name))]

getRightByName(name, entities, err) ==
    LET slowSearch == Contains(name, ",") \/ Contains(name, ";")
        params == IF slowSearch THEN Nil ELSE Ptr(name)
        rights == ServerQuery(entities, params)
        named == SelectSeq(rights, LAMBDA right : right.name = name)
    IN  IF err # NoError THEN [out |-> Nil, err |-> err]
        ELSE IF Len(rights) = 0 THEN NotFound
        ELSE IF slowSearch
             THEN IF Len(named) > 0
                  THEN [out |-> Ptr(named[1]), err |-> NoError]
                  ELSE NotFound
        ELSE IF Len(rights) > 1
             THEN [out |-> Nil, err |-> ErrMoreThanOne("right", name)]
        ELSE [out |-> Ptr(rights[1]), err |-> NoError]

\* err is the error of the query, hrefErr that of the request by HREF
getProviderVdcByName(providerVdcName, entities, err, hrefErr) ==
    LET filter == Ptr(ServerUnescape(QueryEscape(providerVdcName)))
        foundProviderVdcs == ServerQuery(entities, filter)
    IN  IF err # NoError THEN [out |-> Nil, err |-> err]
        ELSE IF Len(foundProviderVdcs) = 0 THEN NotFound
        ELSE IF Len(foundProviderVdcs) > 1
             THEN [out |-> Nil, err |-> ErrMoreThanOne("Provider VDC", providerVdcName)]
        ELSE IF hrefErr # NoError THEN [out |-> Nil, err |-> hrefErr]
        ELSE [out |-> Ptr(foundProviderVdcs[1]), err |-> NoError]

getCertificateFromLibraryByName(name, entities, err) ==
    LET slow == shouldDoSlowSearch(name)
        filter == IF IsNil(slow.params) THEN Nil
                  ELSE Ptr(ServerUnescape(Deref(slow.params)))
        certificates == ServerQuery(entities, filter)
        foundCertificates ==
            IF slow.slowSearch
            THEN SelectSeq(certificates, LAMBDA certificate : certificate.name = name)
            ELSE SubSeq(certificates, 1, 1)
    IN  IF err # NoError THEN [out |-> Nil, err |-> err]
        ELSE IF Len(certificates) = 0 THEN NotFound
        ELSE IF slow.slowSearch /\ Len(foundCertificates) = 0 THEN NotFound
        ELSE IF slow.slowSearch /\ Len(foundCertificates) > 1
             THEN [out |-> Nil, err |-> ErrMoreThanOne("certificate", name)]
        ELSE IF Len(certificates) > 1 /\ ~slow.slowSearch
             THEN [out |-> Nil, err |-> ErrMoreThanOne("certificate", name)]
        ELSE [out |-> Ptr(foundCertificates[1]), err |-> NoError]

InitLookup ==
    /\ IgnoredMetadata = <<>>
    /\ ret = Idle
    /\ task = NoTask
    /\ server = <<>>
    /\ call = NoCall
    /\ wait = NotWaiting
    /\ pages = <<>>
    /\ fetch = NotFetching

GetRightByName ==
    /\ ret = Idle
    /\ \E name \in EntityNames, entities \in EntityLists, err \in {NoError, ErrQuery} :
          ret' = [op |-> "getRightByName", name |-> name, entities |-> entities,
                  failed |-> err # NoError,
                  res |-> getRightByName(name, entities, err)]
    /\ UNCHANGED <<IgnoredMetadata, task, wait, pages, fetch, server, call>>

GetProviderVdcByName ==
    /\ ret = Idle
    /\ \E name \in EntityNames, entities \in EntityLists,
          err \in {NoError, ErrQuery}, hrefErr \in {NoError, ErrHttp("get")} :
          ret' = [op |-> "getProviderVdcByName", name |-> name, entities |-> entities,
                  failed |-> err # NoError \/ hrefErr # NoError,
                  res |-> getProviderVdcByName(name, entities, err, hrefErr)]
    /\ UNCHANGED <<IgnoredMetadata, task, wait, pages, fetch, server, call>>

GetCertificateFromLibraryByName ==
    /\ ret = Idle
    /\ \E name \in EntityNames, entities \in EntityLists, err \in {NoError, ErrQuery} :
          ret' = [op |-> "getCertificateFromLibraryByName", name |-> name,
                  entities |-> entities, failed |-> err # NoError,
                  res |-> getCertificateFromLibraryByName(name, entities, err)]
    /\ UNCHANGED <<IgnoredMetadata, task, wait, pages, fetch, server, call>>

NextLookup == GetRightByName \/ GetProviderVdcByName \/ GetCertificateFromLibraryByName

SpecLookup == InitLookup /\ [][NextLookup]_vars

----------------------------------------------------------------------------
(* A sequence of calls on one client and one object.  The client's rules   *)
(* change with SetMetadataToIgnore; the server keeps the entries of the    *)
(* object (of the GENERAL domain) from one call to the next.  The calls    *)
(* that write are the ones that wait for the task: when the task succeeds  *)
(* the server has done what the request asked for.  The caller makes its   *)
(* calls one after another.                                                *)

SessionHref == HrefOrg

\* the object's name, empty in the ByHref methods
SessionNames == {<<>>, <<"a">>}

SessionRules ==
    {[ObjectType |-> Nil, ObjectName |-> Nil, KeyRegex |-> Ptr({"k1"}), ValueRegex |-> Nil],
     [ObjectType |-> Nil, ObjectName |-> Nil, KeyRegex |-> Nil, ValueRegex |-> Ptr({"v1"})],
     [ObjectType |-> Ptr(<<"o">>), ObjectName |-> Ptr(<<"a">>), KeyRegex |-> Ptr({"k1"}),
      ValueRegex |-> Ptr({"v1"})],
     [ObjectType |-> Nil, ObjectName |-> Nil, KeyRegex |-> Nil, ValueRegex |-> Nil]}

SessionRuleLists == SeqsUpTo(SessionRules, MaxRules)

\* the server's answer to a GET of .../metadata/key
StoreGet(store, key) ==
    IF \E i \in 1..Len(store) : store[i].Key = key
    THEN Ptr((CHOOSE e \in {store[i] : i \in 1..Len(store)} : e.Key = key).Value)
    ELSE Absent

\* the server after a PUT of .../metadata/key: the value of the key is set
StorePut(store, key, value) ==
    IF \E i \in 1..Len(store) : store[i].Key = key
    THEN [i \in 1..Len(store) |->
             IF store[i].Key = key THEN [Key |-> key, Value |-> value] ELSE store[i]]
    ELSE Append(store, [Key |-> key, Value |-> value])

\* the server after a POST of .../metadata: every entry of the body is set
RECURSIVE StoreMerge(_, _)
StoreMerge(store, entries) ==
    IF entries = <<>> THEN store
    ELSE StoreMerge(StorePut(store, Head(entries).Key, Head(entries).Value),
                    Tail(entries))

\* the server after a DELETE of .../metadata/key
StoreDelete(store, key) == SelectSeq(store, LAMBDA e : e.Key # key)

\* the server after the task of the request req has succeeded
StoreAfter(store, req) ==
    IF req.method = "PUT" THEN StorePut(store, req.path[Len(req.path)], req.body.TypedValue.Value)
    ELSE IF req.method = "POST" THEN StoreMerge(store, req.body)
    ELSE StoreDelete(store, req.path[Len(req.path)])

\* task.WaitTaskCompletion after a call that returned r: the error of the
\* call, or that of the task
AndWait(r, taskOk) ==
    IF r.err # NoError THEN r.err
    ELSE IF taskOk THEN NoError
    ELSE TaskError([message |-> "m1"])

\* the server after the call that returned r
ServerAfter(r, taskOk) ==
    IF r.err = NoError /\ taskOk THEN StoreAfter(server, Deref(r.task)) ELSE server

InitSession ==
    /\ IgnoredMetadata = <<>>
    /\ ret = Idle
    /\ task = NoTask
    /\ wait = NotWaiting
    /\ pages = <<>>
    /\ fetch = NotFetching
    /\ server \in ServerLists
    /\ call = NoCall

SetMetadataToIgnore ==
    /\ ret = Idle
    /\ \E ignoredMetadata \in SessionRuleLists :
          /\ IgnoredMetadata' = ignoredMetadata
          /\ ret' = [op |-> "SetMetadataToIgnore", result |-> IgnoredMetadata]
    /\ UNCHANGED <<task, wait, pages, fetch, server, call>>

\* getMetadata on the entries the server holds
SessionGetMetadata ==
    /\ ret = Idle
    /\ \E name \in SessionNames :
          ret' = [op |-> "getMetadata", name |-> name, before |-> server,
                  res |-> getMetadata(Client, SessionHref, name, Ptr(server))]
    /\ UNCHANGED <<IgnoredMetadata, task, wait, pages, fetch, server, call>>

\* getMetadataByKey on the entries the server holds
SessionGetMetadataByKey ==
    /\ ret = Idle
    /\ \E name \in SessionNames, key \in Keys :
          ret' = [op |-> "getMetadataByKey", name |-> name, key |-> key,
                  before |-> server,
                  res |-> getMetadataByKey(Client, SessionHref, name, key, FALSE,
                                           StoreGet(server, key))]
    /\ UNCHANGED <<IgnoredMetadata, task, wait, pages, fetch, server, call>>

\* addMetadataAndWait
AddMetadataEntryWithVisibility ==
    /\ ret = Idle
    /\ \E name \in SessionNames, key \in Keys, value \in Values,
          typedValue \in TypedValues, answer \in ServerAnswers, taskOk \in BOOLEAN :
          LET r == addMetadata(Client, SessionHref, name, key, value, typedValue,
                               "READWRITE", FALSE, answer)
          IN  /\ ret' = [op |-> "addMetadata", name |-> name, key |-> key,
                         value |-> value, before |-> server, res |-> r,
                         err |-> AndWait(r, taskOk)]
              /\ server' = ServerAfter(r, taskOk)
    /\ UNCHANGED <<IgnoredMetadata, task, wait, pages, fetch, call>>

\* mergeMetadataAndWait
MergeMetadataWithMetadataValues ==
    /\ ret = Idle
    /\ \E name \in SessionNames, metadataToMerge \in ServerLists,
          answer \in ServerAnswers, taskOk \in BOOLEAN :
          LET r == mergeAllMetadata(Client, SessionHref, name, metadataToMerge, answer)
          IN  /\ ret' = [op |-> "mergeAllMetadata", name |-> name,
                         metadata |-> metadataToMerge, before |-> server, res |-> r,
                         err |-> AndWait(r, taskOk)]
              /\ server' = ServerAfter(r, taskOk)
    /\ UNCHANGED <<IgnoredMetadata, task, wait, pages, fetch, call>>

\* deleteMetadataAndWait
DeleteMetadataEntryWithDomain ==
    /\ ret = Idle
    /\ \E name \in SessionNames, key \in Keys, taskOk \in BOOLEAN :
          LET r == deleteMetadata(Client, SessionHref, name, key, FALSE,
                                  StoreGet(server, key))
          IN  /\ ret' = [op |-> "deleteMetadata", name |-> name, key |-> key,
                         before |-> server, res |-> r, err |-> AndWait(r, taskOk)]
              /\ server' = ServerAfter(r, taskOk)
    /\ UNCHANGED <<IgnoredMetadata, task, wait, pages, fetch, call>>

\* the deprecated AddMetadataEntry: addMetadataDeprecated, then the wait
AddMetadataEntry ==
    /\ ret = Idle
    /\ \E key \in Keys, value \in Values, typedValue \in TypedValues,
          answer \in ServerAnswers, taskOk \in BOOLEAN :
          LET r == addMetadataDeprecated(Client, typedValue, key, value, SessionHref,
                                         answer)
          IN  /\ ret' = [op |-> "addMetadataDeprecated", name |-> <<>>, key |-> key,
                         value |-> value, before |-> server, res |-> r,
                         err |-> AndWait(r, taskOk)]
              /\ server' = ServerAfter(r, taskOk)
    /\ UNCHANGED <<IgnoredMetadata, task, wait, pages, fetch, call>>

\* the deprecated MergeMetadata: mergeAllMetadataDeprecated, then the wait
MergeMetadata ==
    /\ ret = Idle
    /\ \E metadataToMerge \in ServerLists, typedValue \in TypedValues,
          answer \in ServerAnswers, taskOk \in BOOLEAN :
          LET r == mergeAllMetadataDeprecated(Client, typedValue, metadataToMerge,
                                              SessionHref, answer)
          IN  /\ ret' = [op |-> "mergeAllMetadataDeprecated", name |-> <<>>,
                         metadata |-> metadataToMerge, before |-> server, res |-> r,
                         err |-> AndWait(r, taskOk)]
              /\ server' = ServerAfter(r, taskOk)
    /\ UNCHANGED <<IgnoredMetadata, task, wait, pages, fetch, call>>

\* the caller has the result of the call and goes on to its next call
Continue ==
    /\ ret # Idle
    /\ ret' = Idle
    /\ UNCHANGED <<IgnoredMetadata, task, wait, pages, fetch, server, call>>

NextSession ==
    \/ SetMetadataToIgnore
    \/ SessionGetMetadata
    \/ SessionGetMetadataByKey
    \/ AddMetadataEntryWithVisibility
    \/ MergeMetadataWithMetadataValues
    \/ DeleteMetadataEntryWithDomain
    \/ AddMetadataEntry
    \/ MergeMetadata
    \/ Continue

SpecSession == InitSession /\ [][NextSession]_vars

----------------------------------------------------------------------------
(* Methods that make more than one request.  Client.ExecuteRequest sends   *)
(* a request and returns when the server has answered; the method goes on  *)
(* from there.  inFlight holds the requests sent and not yet answered.     *)

CallMethods == {"RemoveStorageProfile", "UpdateNsxtRouteAdvertisementWithContext"}

GetStorageProfile == Request("GET", HrefVdc, <<"vdcStorageProfile">>)
PutStorageProfile == Request("PUT", HrefVdc, <<"vdcStorageProfile">>)
PostStorageProfiles == Request("POST", HrefVdc, <<"vdcStorageProfiles">>)
PutRouteAdvertisement == Request("PUT", HrefOrg, <<"routeAdvertisement">>)
GetRouteAdvertisement == Request("GET", HrefOrg, <<"routeAdvertisement">>)

\* what the server can answer to a request
AnswersTo(req) ==
    IF req = GetStorageProfile
    THEN {"error", "enabled nil", "enabled true", "enabled false"}
    ELSE IF req.method = "GET" /\ req.path[1] = "metadata"
    THEN {"error"} \cup Values
    ELSE {"error", "ok"}

\* mutant of Awaited: the method goes on without the answer
AwaitedNever(c) == TRUE

\* the request the method has sent has been answered: ExecuteRequest returned
Awaited(c) == c.inFlight = {}

Send(c, req, pc) ==
    [c EXCEPT !.sent = Append(@, req), !.inFlight = @ \cup {req}, !.pc = pc]

Return(c, err) == [c EXCEPT !.pc = "returned", !.err = err]

ErrCall(what) == <<"cannot ", what>>

InitCall ==
    /\ ret = Idle
    /\ task = NoTask
    /\ wait = NotWaiting
    /\ pages = <<>>
    /\ fetch = NotFetching
    /\ server = <<>>
    /\ \/ /\ IgnoredMetadata = <<>>
          /\ call \in [method : CallMethods, pc : {"start"}, sane : BOOLEAN,
                       found : BOOLEAN, sent : {<<>>}, inFlight : {{}},
                       answers : {<<>>}, err : {NoError}]
       \/ /\ IgnoredMetadata \in SessionRuleLists
          /\ call \in [method : {"deleteMetadata"}, pc : {"start"},
                       name : SessionNames, key : Keys, sent : {<<>>},
                       inFlight : {{}}, answers : {<<>>}, err : {NoError}]

OtherVarsOfCall == <<IgnoredMetadata, ret, task, wait, pages, fetch, server>>

\* the answer to the last request
LastAnswer(c) == IF c.answers = <<>> THEN "none" ELSE c.answers[Len(c.answers)]

\* the server answers a request
ServerAnswersRequest ==
    /\ call.pc \notin {"none"}
    /\ \E req \in call.inFlight : \E answer \in AnswersTo(req) :
          call' = [call EXCEPT !.inFlight = @ \ {req}, !.answers = Append(@, answer)]
    /\ UNCHANGED OtherVarsOfCall

\* RemoveStorageProfile up to its first request: sane stands for the VCD
\* HREF being set, found for the profile being one of the VDC's
RemoveStorageProfileStart ==
    /\ call.pc = "start"
    /\ call.method = "RemoveStorageProfile"
    /\ call' = IF ~call.sane THEN Return(call, ErrCall("remove VDC storage profile: VCD HREF is unset"))
               ELSE IF ~call.found THEN Return(call, ErrCall("remove VDC storage profile: not found in VDC"))
               ELSE Send(call, GetStorageProfile, "details")
    /\ UNCHANGED OtherVarsOfCall

\* after GetStorageProfileByHref: disable the profile if it is enabled, then
\* ask for its removal
RemoveStorageProfileDetails ==
    /\ call.pc = "details"
    /\ Awaited(call)
    /\ call' = IF LastAnswer(call) = "error"
               THEN Return(call, ErrCall("retrieve VDC storage profile details"))
               ELSE IF LastAnswer(call) = "enabled true"
               THEN Send(call, PutStorageProfile, "disable")
               ELSE Send(call, PostStorageProfiles, "remove")
    /\ UNCHANGED OtherVarsOfCall

\* after UpdateStorageProfile
RemoveStorageProfileDisabled ==
    /\ call.pc = "disable"
    /\ Awaited(call)
    /\ call' = IF LastAnswer(call) = "error"
               THEN Return(call, ErrCall("disable VDC storage profile"))
               ELSE Send(call, PostStorageProfiles, "remove")
    /\ UNCHANGED OtherVarsOfCall

\* after the request of the removal: the task or the error
RemoveStorageProfileRemoved ==
    /\ call.pc = "remove"
    /\ Awaited(call)
    /\ call' = IF LastAnswer(call) = "error"
               THEN Return(call, ErrCall("remove VDC storage profile"))
               ELSE Return(call, NoError)
    /\ UNCHANGED OtherVarsOfCall

\* UpdateNsxtRouteAdvertisementWithContext up to its PUT: sane stands for
\* checkSanityNsxtEdgeGatewayRouteAdvertisement, found for the endpoint and
\* the tenant context being there
UpdateNsxtRouteAdvertisementStart ==
    /\ call.pc = "start"
    /\ call.method = "UpdateNsxtRouteAdvertisementWithContext"
    /\ call' = IF ~call.sane THEN Return(call, ErrCall("use the EdgeGateway"))
               ELSE IF ~call.found THEN Return(call, ErrCall("build the endpoint"))
               ELSE Send(call, PutRouteAdvertisement, "put")
    /\ UNCHANGED OtherVarsOfCall

\* after OpenApiPutItem: GetNsxtRouteAdvertisementWithContext
UpdateNsxtRouteAdvertisementPut ==
    /\ call.pc = "put"
    /\ Awaited(call)
    /\ call' = IF LastAnswer(call) = "error"
               THEN Return(call, ErrCall("update the route advertisement"))
               ELSE Send(call, GetRouteAdvertisement, "get")
    /\ UNCHANGED OtherVarsOfCall

\* after OpenApiGetItem: the route advertisement or the error
UpdateNsxtRouteAdvertisementGot ==
    /\ call.pc = "get"
    /\ Awaited(call)
    /\ call' = IF LastAnswer(call) = "error"
               THEN Return(call, ErrCall("get the route advertisement"))
               ELSE Return(call, NoError)
    /\ UNCHANGED OtherVarsOfCall

\* the value the server holds under the key, as the answer to the GET says
StoredPerAnswer(answer) == IF answer \in Values THEN Ptr(answer) ELSE Absent

\* deleteMetadata up to its first request: the rules reject the deletion,
\* or ask for the value of the key, or let the deletion through
DeleteMetadataStart ==
    /\ call.pc = "start"
    /\ call.method = "deleteMetadata"
    /\ LET f == filterMetadataToDelete(Client, call.key, SessionHref, call.name, FALSE,
                                       Absent, IgnoredMetadata)
       IN  call' = IF f.requests # <<>> THEN Send(call, f.requests[1], "value")
                   ELSE IF f.err # NoError THEN Return(call, f.err)
                   ELSE Send(call, Request("DELETE", SessionHref,
                                           MetadataPath(call.key, FALSE)), "delete")
    /\ UNCHANGED OtherVarsOfCall

\* after getMetadataByKey: the rules decide on the value
DeleteMetadataValue ==
    /\ call.pc = "value"
    /\ Awaited(call)
    /\ LET f == filterMetadataToDelete(Client, call.key, SessionHref, call.name, FALSE,
                                       StoredPerAnswer(LastAnswer(call)), IgnoredMetadata)
       IN  call' = IF f.err # NoError THEN Return(call, f.err)
                   ELSE Send(call, Request("DELETE", SessionHref,
                                           MetadataPath(call.key, FALSE)), "delete")
    /\ UNCHANGED OtherVarsOfCall

\* after the DELETE: the task or the error
DeleteMetadataDeleted ==
    /\ call.pc = "delete"
    /\ Awaited(call)
    /\ call' = IF LastAnswer(call) = "error"
               THEN Return(call, ErrHttp("error deleting metadata: "))
               ELSE Return(call, NoError)
    /\ UNCHANGED OtherVarsOfCall

NextCall ==
    \/ ServerAnswersRequest
    \/ DeleteMetadataStart
    \/ DeleteMetadataValue
    \/ DeleteMetadataDeleted
    \/ RemoveStorageProfileStart
    \/ RemoveStorageProfileDetails
    \/ RemoveStorageProfileDisabled
    \/ RemoveStorageProfileRemoved
    \/ UpdateNsxtRouteAdvertisementStart
    \/ UpdateNsxtRouteAdvertisementPut
    \/ UpdateNsxtRouteAdvertisementGot

SpecCall == InitCall /\ [][NextCall]_vars

----------------------------------------------------------------------------
(* Entities behind the generic CRUD helpers: IP Space Uplinks and NSX-T    *)
(* Segment Profile Templates.  The server keeps, for every ID, the name of *)
(* the entity that has it; the caller holds at most one entity object, the *)
(* receiver of Update and Delete.  A request can fail before the server    *)
(* has done anything.                                                      *)

EntityKinds == {"IpSpaceUplink", "NsxtSegmentProfileTemplate"}

EntityIds == 1..MaxIds

\* the empty string as an ID
NoId == 0

ConfigNames == {"a", "b"}

\* the inner types.IpSpaceUplink / types.NsxtSegmentProfileTemplate
Configs == [ID : {NoId} \cup EntityIds, Name : ConfigNames]

RequestAnswers == {"ok", "error"}

ErrEntityRequest == <<"error performing the request">>

ErrMustHaveId == <<"IP Space Uplink must have ID">>

\* ContainsNotFound
ContainsNotFound(err) == \E i \in 1..Len(err) : err[i] = ErrorEntityNotFound[1]

\* what the server holds under an ID
ServerGet(store, id) ==
    IF id \in EntityIds /\ store[id] # Absent
    THEN Ptr([ID |-> id, Name |-> Deref(store[id])])
    ELSE Absent

\* the server's answer to the list request with the filter name==name
RECURSIVE ServerListFrom(_, _, _)
ServerListFrom(store, name, i) ==
    IF i > MaxIds THEN <<>>
    ELSE (IF store[i] = Ptr(name) THEN <<[ID |-> i, Name |-> name]>> ELSE <<>>)
         \o ServerListFrom(store, name, i + 1)

EntityRequest(method, id, body) == [method |-> method, id |-> id, body |-> body]

\* getOuterEntity: GET of endpoint/id
getOuterEntity(store, id, answer) ==
    LET req == EntityRequest("GET", id, Nil)
    IN  IF answer = "error"
        THEN [out |-> Nil, err |-> ErrEntityRequest, store |-> store, requests |-> <<req>>]
        ELSE IF ServerGet(store, id) = Absent
        THEN [out |-> Nil, err |-> ErrorEntityNotFound, store |-> store, requests |-> <<req>>]
        ELSE [out |-> ServerGet(store, id), err |-> NoError, store |-> store,
              requests |-> <<req>>]

\* getAllOuterEntities with the filter name==name
getAllOuterEntities(store, name, answer) ==
    IF answer = "error"
    THEN [out |-> <<>>, err |-> ErrEntityRequest]
    ELSE [out |-> ServerListFrom(store, name, 1), err |-> NoError]

\* oneOrError
oneOrError(key, name, entitySlice) ==
    IF Len(entitySlice) > 1
    THEN [out |-> Nil, err |-> ErrMoreThanOne("entity", <<name>>)]
    ELSE IF Len(entitySlice) = 0
    THEN [out |-> Nil, err |-> ErrorEntityNotFound]
    ELSE [out |-> Ptr(entitySlice[1]), err |-> NoError]

\* createOuterEntity: POST of the configuration; the server gives the new
\* entity the ID newId
createOuterEntity(store, config, newId, answer) ==
    LET req == EntityRequest("POST", NoId, Ptr(config))
    IN  IF answer = "error"
        THEN [out |-> Nil, err |-> ErrEntityRequest, store |-> store, requests |-> <<req>>]
        ELSE [out |-> Ptr([ID |-> newId, Name |-> config.Name]), err |-> NoError,
              store |-> [store EXCEPT ![newId] = Ptr(config.Name)],
              requests |-> <<req>>]

\* updateOuterEntity: PUT of the configuration to endpoint/id; the server
\* changes the entity the URL names and sends it back
updateOuterEntity(store, id, config, answer) ==
    LET req == EntityRequest("PUT", id, Ptr(config))
    IN  IF answer = "error"
        THEN [out |-> Nil, err |-> ErrEntityRequest, store |-> store, requests |-> <<req>>]
        ELSE IF ServerGet(store, id) = Absent
        THEN [out |-> Nil, err |-> ErrorEntityNotFound, store |-> store, requests |-> <<req>>]
        ELSE [out |-> Ptr([ID |-> id, Name |-> config.Name]), err |-> NoError,
              store |-> [store EXCEPT ![id] = Ptr(config.Name)],
              requests |-> <<req>>]

\* deleteEntityById: DELETE of endpoint/id
deleteEntityById(store, id, answer) ==
    LET req == EntityRequest("DELETE", id, Nil)
    IN  IF answer = "error"
        THEN [out |-> Nil, err |-> ErrEntityRequest, store |-> store, requests |-> <<req>>]
        ELSE IF ServerGet(store, id) = Absent
        THEN [out |-> Nil, err |-> ErrorEntityNotFound, store |-> store, requests |-> <<req>>]
        ELSE [out |-> Nil, err |-> NoError, store |-> [store EXCEPT ![id] = Absent],
              requests |-> <<req>>]

GetSegmentProfileTemplateById(store, id, answer) == getOuterEntity(store, id, answer)

GetIpSpaceUplinkById(store, id, answer) == getOuterEntity(store, id, answer)

GetSegmentProfileTemplateByName(store, name, answer) ==
    LET allSegmentProfileTemplates == getAllOuterEntities(store, name, answer)
        req == EntityRequest("GET", NoId, Ptr(name))
        one == oneOrError("name", name, allSegmentProfileTemplates.out)
    IN  IF allSegmentProfileTemplates.err # NoError
        THEN [out |-> Nil, err |-> allSegmentProfileTemplates.err, store |-> store,
              requests |-> <<req>>]
        ELSE [out |-> one.out, err |-> one.err, store |-> store, requests |-> <<req>>]

\* mutant of GetIpSpaceUplinkByName: the error of the list request is dropped
GetIpSpaceUplinkByNameDropsError(store, name, answer) ==
    LET allIpSpaceUplinks == getAllOuterEntities(store, name, answer)
        req == EntityRequest("GET", NoId, Ptr(name))
        one == oneOrError("name", name, allIpSpaceUplinks.out)
    IN  IF allIpSpaceUplinks.err # NoError
        THEN [out |-> Nil, err |-> NoError, store |-> store, requests |-> <<req>>]
        ELSE [out |-> one.out, err |-> one.err, store |-> store, requests |-> <<req>>]

GetIpSpaceUplinkByName(store, name, answer) ==
    LET allIpSpaceUplinks == getAllOuterEntities(store, name, answer)
        req == EntityRequest("GET", NoId, Ptr(name))
        one == oneOrError("name", name, allIpSpaceUplinks.out)
    IN  IF allIpSpaceUplinks.err # NoError
        THEN [out |-> Nil,
              err |-> <<"error getting IP Space Uplink by Name '", name, "':">>
                      \o allIpSpaceUplinks.err,
              store |-> store, requests |-> <<req>>]
        ELSE [out |-> one.out, err |-> one.err, store |-> store, requests |-> <<req>>]

\* NsxtSegmentProfileTemplate.Update: the endpoint is built with the ID of
\* the configuration
NsxtSegmentProfileTemplateUpdate(store, spt, nsxtSegmentProfileTemplateConfig, answer) ==
    updateOuterEntity(store, nsxtSegmentProfileTemplateConfig.ID,
                      nsxtSegmentProfileTemplateConfig, answer)

\* IpSpaceUplink.Update: the endpoint is built with the ID of the receiver
IpSpaceUplinkUpdate(store, ipSpaceUplink, ipSpaceUplinkConfig, answer) ==
    updateOuterEntity(store, ipSpaceUplink.ID, ipSpaceUplinkConfig, answer)

NsxtSegmentProfileTemplateDelete(store, spt, answer) ==
    deleteEntityById(store, spt.ID, answer)

IpSpaceUplinkDelete(store, ipSpaceUplink, answer) ==
    IF ipSpaceUplink.ID = NoId
    THEN [out |-> Nil, err |-> ErrMustHaveId, store |-> store, requests |-> <<>>]
    ELSE deleteEntityById(store, ipSpaceUplink.ID, answer)

InitEntity ==
    /\ IgnoredMetadata = <<>>
    /\ ret = Idle
    /\ task = NoTask
    /\ wait = NotWaiting
    /\ pages = <<>>
    /\ fetch = NotFetching
    /\ server = [id \in EntityIds |-> Absent]
    /\ call \in [pc : {"entity"}, kind : EntityKinds, object : {Nil}, deleted : {{}}]

\* CreateIpSpaceUplink, CreateSegmentProfileTemplate.  An entity created
\* with the ID or the name of a deleted one ends the time during which the
\* deleted one cannot be found
Create ==
    /\ ret = Idle
    /\ call.pc = "entity"
    /\ \E name \in ConfigNames, newId \in EntityIds, answer \in RequestAnswers :
          /\ server[newId] = Absent
          /\ LET config == [ID |-> NoId, Name |-> name]
                 res == createOuterEntity(server, config, newId, answer)
             IN  /\ ret' = [op |-> "Create", config |-> config, answer |-> answer,
                            res |-> res]
                 /\ server' = res.store
                 /\ call' = [call EXCEPT !.deleted =
                                IF res.err = NoError
                                THEN {d \in @ : d.ID # newId /\ d.Name # name}
                                ELSE @]
    /\ UNCHANGED <<IgnoredMetadata, task, wait, pages, fetch>>

\* GetIpSpaceUplinkById, GetSegmentProfileTemplateById
GetById ==
    /\ ret = Idle
    /\ call.pc = "entity"
    /\ \E id \in EntityIds, answer \in RequestAnswers :
          ret' = [op |-> "GetById", id |-> id, answer |-> answer,
                  res |-> IF call.kind = "IpSpaceUplink"
                          THEN GetIpSpaceUplinkById(server, id, answer)
                          ELSE GetSegmentProfileTemplateById(server, id, answer)]
    /\ UNCHANGED <<IgnoredMetadata, task, wait, pages, fetch, server, call>>

\* GetIpSpaceUplinkByName, GetSegmentProfileTemplateByName
GetByName ==
    /\ ret = Idle
    /\ call.pc = "entity"
    /\ \E name \in ConfigNames, answer \in RequestAnswers :
          ret' = [op |-> "GetByName", name |-> name, answer |-> answer,
                  res |-> IF call.kind = "IpSpaceUplink"
                          THEN GetIpSpaceUplinkByName(server, name, answer)
                          ELSE GetSegmentProfileTemplateByName(server, name, answer)]
    /\ UNCHANGED <<IgnoredMetadata, task, wait, pages, fetch, server, call>>

\* IpSpaceUplink.Update, NsxtSegmentProfileTemplate.Update on the object held
Update ==
    /\ ret = Idle
    /\ call.pc = "entity"
    /\ call.object # Nil
    /\ \E config \in Configs, answer \in RequestAnswers :
          LET receiver == Deref(call.object)
              res == IF call.kind = "IpSpaceUplink"
                     THEN IpSpaceUplinkUpdate(server, receiver, config, answer)
                     ELSE NsxtSegmentProfileTemplateUpdate(server, receiver, config, answer)
          IN  /\ ret' = [op |-> "Update", receiver |-> receiver, config |-> config,
                         answer |-> answer, res |-> res]
              /\ server' = res.store
    /\ UNCHANGED <<IgnoredMetadata, task, wait, pages, fetch, call>>

\* IpSpaceUplink.Delete, NsxtSegmentProfileTemplate.Delete on the object
\* held; deleted remembers the ID and the name of the entity
Delete ==
    /\ ret = Idle
    /\ call.pc = "entity"
    /\ call.object # Nil
    /\ \E answer \in RequestAnswers :
          LET receiver == Deref(call.object)
              res == IF call.kind = "IpSpaceUplink"
                     THEN IpSpaceUplinkDelete(server, receiver, answer)
                     ELSE NsxtSegmentProfileTemplateDelete(server, receiver, answer)
          IN  /\ ret' = [op |-> "Delete", receiver |-> receiver, answer |-> answer,
                         res |-> res]
              /\ server' = res.store
              /\ call' = [call EXCEPT !.deleted =
                             IF res.err = NoError
                             THEN @ \cup {[ID |-> receiver.ID,
                                           Name |-> Deref(server[receiver.ID])]}
                             ELSE @]
    /\ UNCHANGED <<IgnoredMetadata, task, wait, pages, fetch>>

\* the caller keeps the entity object a call returned
Keep ==
    /\ ret # Idle
    /\ call.pc = "entity"
    /\ ret.res.out # Nil
    /\ call' = [call EXCEPT !.object = ret.res.out]
    /\ ret' = Idle
    /\ UNCHANGED <<IgnoredMetadata, task, wait, pages, fetch, server>>

NextEntity == Create \/ GetById \/ GetByName \/ Update \/ Delete \/ Keep \/ Continue

SpecEntity == InitEntity /\ [][NextEntity]_vars

----------------------------------------------------------------------------
(* Claims *)

AllNilRule ==
    [ObjectType |-> Nil, ObjectName |-> Nil, KeyRegex |-> Nil, ValueRegex |-> Nil]

InsertAt(l, p, x) == SubSeq(l, 1, p) \o <<x>> \o SubSeq(l, p + 1, Len(l))
RemoveAt(l, i) == SubSeq(l, 1, i - 1) \o SubSeq(l, i + 1, Len(l))

\* C1 as stated: a rule matches when every non-nil field equals (or, for a
\* regular expression, matches) the entry's attribute.
RuleMatchesStrictly(r, e) ==
    /\ r # AllNilRule
    /\ IsNil(r.ObjectType) \/ Deref(r.ObjectType) = e.ObjectType
    /\ IsNil(r.ObjectName) \/ Deref(r.ObjectName) = e.ObjectName
    /\ IsNil(r.KeyRegex) \/ e.Key \in Deref(r.KeyRegex)
    /\ IsNil(r.ValueRegex) \/ e.Value \in Deref(r.ValueRegex)

\* C1 (original statement): the filter returns true iff some rule with a
\* non-nil field has every non-nil field equal to / matching the entry.
C1_FilterIffStrictMatch ==
    ret.op = "filter" =>
        (ret.isFiltered <=>
            \E i \in 1..Len(IgnoredMetadata) :
                RuleMatchesStrictly(IgnoredMetadata[i], ret.entry))

IsBlank(s) == \A i \in 1..Len(s) : s[i] = " "

RuleMatchesWithBlanks(r, e) ==
    /\ r # AllNilRule
    /\ \/ IsNil(r.ObjectType)
       \/ IsBlank(Deref(r.ObjectType))
       \/ Deref(r.ObjectType) = e.ObjectType
    /\ \/ IsNil(r.ObjectName)
       \/ IsBlank(Deref(r.ObjectName))
       \/ IsBlank(e.ObjectName)
       \/ Deref(r.ObjectName) = e.ObjectName
    /\ IsNil(r.KeyRegex) \/ e.Key \in Deref(r.KeyRegex)
    /\ IsNil(r.ValueRegex) \/ e.Value \in Deref(r.ValueRegex)

\* C1 (amended): the filter returns true iff some rule with a non-nil field
\* has every non-nil field matching, where a blank ObjectType or ObjectName
\* of the rule matches anything and a blank object name of the entry matches
\* any ObjectName.
C1_FilterIffMatchWithBlanks ==
    ret.op = "filter" =>
        (ret.isFiltered <=>
            \E i \in 1..Len(IgnoredMetadata) :
                RuleMatchesWithBlanks(IgnoredMetadata[i], ret.entry))

\* C1 witness: a second rule, after one that does not match, with three
\* non-nil fields that all match: the entry is filtered.
C1_Witness ==
    /\ ret.op = "filter"
    /\ ret.isFiltered
    /\ Len(IgnoredMetadata) = 2
    /\ ~RuleMatchesWithBlanks(IgnoredMetadata[1], ret.entry)
    /\ IgnoredMetadata[1] # AllNilRule
    /\ ~IsNil(IgnoredMetadata[2].ObjectType)
    /\ ~IsBlank(Deref(IgnoredMetadata[2].ObjectType))
    /\ ~IsNil(IgnoredMetadata[2].KeyRegex)
    /\ ~IsNil(IgnoredMetadata[2].ValueRegex)

\* the requests of a call hold no DELETE
NoDeleteSent(requests) ==
    \A i \in 1..Len(requests) : requests[i].method # "DELETE"

\* deleteMetadata returned an error and sent no DELETE
DeleteRejected(res) == res.err # NoError /\ NoDeleteSent(res.requests)

\* getMetadata on a server that holds the single entry (key, v) returns a
\* list without it
ReadStrips(client, h, name, key, v) ==
    LET entry == [Key |-> key, Value |-> v]
        got == getMetadata(client, h, name, Ptr(<<entry>>))
    IN  got.err = NoError /\ \A i \in 1..Len(Deref(got.out)) : Deref(got.out)[i] # entry

\* C2: when the server holds value v under the key, deleteMetadata returns
\* an error without sending the DELETE iff getMetadata would strip (key, v).
C2_DeleteGatedLikeRead ==
    (ret.op = "deleteMetadata" /\ ret.stored # Absent) =>
        (DeleteRejected(ret.res) <=>
            ReadStrips(Client, ret.href, ret.name, ret.key, Deref(ret.stored)))

\* C2 witness: the first rule that matches type, name and key has a value
\* expression that does not match the stored value, a later rule matches
\* the entry, and the deletion is rejected after the GET of the value.
C2_Witness ==
    /\ ret.op = "deleteMetadata"
    /\ ret.stored # Absent
    /\ Len(IgnoredMetadata) = 2
    /\ ~IsNil(IgnoredMetadata[1].KeyRegex)
    /\ ret.key \in Deref(IgnoredMetadata[1].KeyRegex)
    /\ ~IsNil(IgnoredMetadata[1].ValueRegex)
    /\ Deref(ret.stored) \notin Deref(IgnoredMetadata[1].ValueRegex)
    /\ DeleteRejected(ret.res)
    /\ Len(ret.res.requests) = 1

\* C2 witness of the other direction: a deletion that is let through, the
\* DELETE sent, under a rule list that is not empty
C2_WitnessAllowed ==
    /\ ret.op = "deleteMetadata"
    /\ ret.stored # Absent
    /\ Len(IgnoredMetadata) = 2
    /\ ret.res.err = NoError
    /\ ~NoDeleteSent(ret.res.requests)
    /\ Len(ret.res.requests) = 2

\* the call of ret made again by a client whose rules are l
CallAgainWith(l) ==
    LET client == [IgnoredMetadata |-> l]
    IN  IF ret.op = "getMetadata"
        THEN getMetadata(client, ret.href, ret.name, ret.response)
        ELSE deleteMetadata(client, ret.href, ret.name, ret.key, ret.isSystem,
                            ret.stored)

\* C3: a rule with four nil fields inserted at any position, or removed from
\* any position, leaves what getMetadata and deleteMetadata return (and the
\* requests they send) unchanged.
C3_AllNilRuleIsNoOp ==
    ret.op \in {"getMetadata", "deleteMetadata"} =>
        /\ \A p \in 0..Len(IgnoredMetadata) :
              CallAgainWith(InsertAt(IgnoredMetadata, p, AllNilRule)) = ret.res
        /\ \A i \in 1..Len(IgnoredMetadata) :
              IgnoredMetadata[i] = AllNilRule =>
                  CallAgainWith(RemoveAt(IgnoredMetadata, i)) = ret.res

\* C3 witness: an all-nil rule stands before a rule that rejects a deletion
C3_Witness ==
    /\ ret.op = "deleteMetadata"
    /\ Len(IgnoredMetadata) = 2
    /\ IgnoredMetadata[1] = AllNilRule
    /\ IgnoredMetadata[2] # AllNilRule
    /\ DeleteRejected(ret.res)

\* C3 witness on the read path: the only rule is all-nil and getMetadata
\* returns both entries of the server
C3_WitnessRead ==
    /\ ret.op = "getMetadata"
    /\ IgnoredMetadata = <<AllNilRule>>
    /\ ret.response # Absent
    /\ Len(Deref(ret.response)) = 2
    /\ ret.res.out = ret.response

\* the entry e of the object matches the ignore filter
EntryIgnored(e, h, name) ==
    filterSingleGenericMetadataEntry(
        [ObjectType |-> getMetadataObjectTypeFromHref(h).objectType,
         ObjectName |-> name, Key |-> e.Key, Value |-> e.Value],
        IgnoredMetadata)

\* C4: getMetadata returns exactly the entries sent by the server that do
\* not match the ignore filter, in the server's order.
C4_GetReturnsKeptInOrder ==
    (ret.op = "getMetadata" /\ ret.response # Absent) =>
        /\ ret.res.err = NoError
        /\ ret.res.out # Nil
        /\ Deref(ret.res.out) =
              SelectSeq(Deref(ret.response),
                        LAMBDA e : ~EntryIgnored(e, ret.href, ret.name))

\* C4 witness: of two entries sent the first is stripped and the second kept
C4_Witness ==
    /\ ret.op = "getMetadata"
    /\ ret.response # Absent
    /\ Len(Deref(ret.response)) = 2
    /\ EntryIgnored(Deref(ret.response)[1], ret.href, ret.name)
    /\ Deref(ret.res.out) = <<Deref(ret.response)[2]>>

FailureStatuses == {"error", "canceled", "aborted"}
TerminalStatuses == {"success"} \cup FailureStatuses

\* C5: while WaitTaskCompletion polls, every status it has seen was queued
\* or running; when it has returned (other than by giving up), the status
\* of its last poll is terminal: it returned at the first terminal poll.
C5_ReturnsAtFirstTerminalPoll ==
    /\ wait.pc = "wait" => wait.last \in {"none", "queued", "running"}
    /\ (wait.pc \in {"refresh", "done"} /\ wait.polls > 0 /\ wait.waitErr # ErrTimeout)
          => (wait.last \in TerminalStatuses /\ wait.last = task.status)

\* C5 witness: the wait returned at its third poll, the first two having
\* found the task queued or running
C5_Witness ==
    /\ wait.pc = "done"
    /\ wait.polls = 3
    /\ wait.last = "canceled"

\* the error err holds the pieces msg, unchanged and in order
Carries(err, msg) ==
    \E i \in 1..Len(err) :
        i + Len(msg) - 1 <= Len(err) /\ SubSeq(err, i, i + Len(msg) - 1) = msg

\* C6: when the task ended in a failure state, the error the wait helper
\* returns holds the task's error message unchanged.
C6_ErrorCarriesTaskMessage ==
    (wait.pc = "done" /\ wait.last \in FailureStatuses) =>
        (wait.err # NoError /\ Carries(wait.err, <<task.message>>))

\* C6 witness: CreateVdcWait has returned the error of an aborted task
C6_Witness ==
    /\ wait.pc = "done"
    /\ wait.helper = "CreateVdcWait"
    /\ wait.last = "aborted"
    /\ task.message = "m2"
    /\ Len(wait.err) = 2

\* C7: a wait never polls beyond the maximum duration, a wait that gave up
\* returns the timeout error, and every wait ends, also when the task never
\* reaches a terminal state.
C7_WaitEndsByTimeout ==
    /\ [](wait.pc = "wait" => wait.elapsed <= MaxWait)
    /\ []((wait.pc = "done" /\ wait.last \in {"queued", "running"})
            => Carries(wait.err, ErrTimeout))
    /\ (wait.pc = "wait") ~> (wait.pc # "wait")

\* C7 witness: the wait gave up on a task that was still queued
C7_Witness ==
    /\ wait.pc = "done"
    /\ wait.waitErr = ErrTimeout
    /\ task.status = "queued"
    /\ wait.elapsed = MaxWait

\* the first page of l, from page i on, that has no next link
RECURSIVE FirstWithoutNext(_, _)
FirstWithoutNext(l, i) == IF ~l[i].next THEN i ELSE FirstWithoutNext(l, i + 1)

\* the items of the pages 1..k of l, in the order of the pages
RECURSIVE ItemsUpTo(_, _)
ItemsUpTo(l, k) == IF k = 0 THEN <<>> ELSE ItemsUpTo(l, k - 1) \o l[k].items

\* C8: a retrieval that succeeded requested the pages 1, 2, ... up to the
\* first page without a next link, one after another and no page beyond
\* it, and returns the items of these pages in the order of the pages.
C8_ListIsPagesInOrder ==
    (fetch.pc = "done" /\ fetch.err = NoError) =>
        LET k == FirstWithoutNext(pages, 1)
        IN  /\ fetch.requested = [i \in 1..k |-> i]
            /\ fetch.out = Ptr(ItemsUpTo(pages, k))

\* C8 witness: three pages were read, the second of them empty
C8_Witness ==
    /\ fetch.pc = "done"
    /\ fetch.err = NoError
    /\ Len(pages) = 3
    /\ fetch.requested = <<1, 2, 3>>
    /\ fetch.out = Ptr(<<"x", "y", "y">>)
    /\ pages[2].items = <<>>

\* C9: a retrieval in which the request of a page failed returns an error
\* and no list, whatever the pages before it held.
C9_PageFailureAbortsList ==
    (fetch.pc = "done" /\ fetch.failed) =>
        (fetch.err # NoError /\ fetch.out = Nil)

\* C9 witness: getAllRights failed at the second page, after a first page
\* with items
C9_Witness ==
    /\ fetch.pc = "done"
    /\ fetch.failed
    /\ fetch.caller = "getAllRights"
    /\ fetch.requested = <<1, 2>>
    /\ fetch.acc = <<"x", "y">>

LookupOps == {"getRightByName", "getProviderVdcByName", "getCertificateFromLibraryByName"}

\* the entities of the call that have the name looked for
Named == SelectSeq(ret.entities, LAMBDA e : e.name = ret.name)

\* C10: a lookup by name whose requests all succeeded returns
\* ErrorEntityNotFound when no entity has the name, another error when more
\* than one has it, and the entity when exactly one has it.
C10_LookupByNameCounts ==
    (ret.op \in LookupOps /\ ~ret.failed) =>
        /\ Len(Named) = 0 => ret.res = [out |-> Nil, err |-> ErrorEntityNotFound]
        /\ Len(Named) > 1 =>
              (ret.res.out = Nil /\ ret.res.err \notin {NoError, ErrorEntityNotFound})
        /\ Len(Named) = 1 => ret.res = [out |-> Ptr(Named[1]), err |-> NoError]

\* The three outcomes hold of every lookup but getRightByName searching, by
\* fetching all rights, a name that more than one right has.
LookupByNameCountsElsewhere ==
    (/\ ret.op \in LookupOps
     /\ ~ret.failed
     /\ ~(ret.op = "getRightByName" /\ Contains(ret.name, ",") /\ Len(Named) > 1)) =>
        /\ Len(Named) = 0 => ret.res = [out |-> Nil, err |-> ErrorEntityNotFound]
        /\ Len(Named) > 1 =>
              (ret.res.out = Nil /\ ret.res.err \notin {NoError, ErrorEntityNotFound})
        /\ Len(Named) = 1 => ret.res = [out |-> Ptr(Named[1]), err |-> NoError]

\* the entry (key, value) of the object of the sequence of calls matches the
\* rules the client has now
IgnoredNow(name, key, value) ==
    EntryIgnored([Key |-> key, Value |-> value], SessionHref, name)

\* no request of the call carries an entry that matches the rules
NoIgnoredEntrySent(name, requests) ==
    \A i \in 1..Len(requests) :
        requests[i].method = "POST" =>
            \A j \in 1..Len(requests[i].body) :
                ~IgnoredNow(name, requests[i].body[j].Key, requests[i].body[j].Value)

\* C11: every metadata call applies the rules set by the last
\* SetMetadataToIgnore: an add of an ignored entry sends nothing and fails,
\* a merge sends no ignored entry, a read returns no ignored entry, a read
\* by key and a delete of an ignored entry fail; the deprecated add and
\* merge included.
C11_EveryCallAppliesRules ==
    /\ (/\ ret.op \in {"addMetadata", "addMetadataDeprecated"}
        /\ IgnoredNow(ret.name, ret.key, ret.value))
          => (ret.res.requests = <<>> /\ ret.err # NoError)
    /\ ret.op \in {"mergeAllMetadata", "mergeAllMetadataDeprecated"}
          => NoIgnoredEntrySent(ret.name, ret.res.requests)
    /\ ret.op = "getMetadata"
          => \A i \in 1..Len(Deref(ret.res.out)) :
                ~IgnoredNow(ret.name, Deref(ret.res.out)[i].Key, Deref(ret.res.out)[i].Value)
    /\ (/\ ret.op \in {"getMetadataByKey", "deleteMetadata"}
        /\ StoreGet(ret.before, ret.key) # Absent
        /\ IgnoredNow(ret.name, ret.key, Deref(StoreGet(ret.before, ret.key))))
          => (ret.res.err # NoError /\ NoDeleteSent(ret.res.requests))

\* The same holds of the calls other than the deprecated add and merge.
EveryCurrentCallAppliesRules ==
    ret.op \notin {"addMetadataDeprecated", "mergeAllMetadataDeprecated"}
        => C11_EveryCallAppliesRules

\* C12 (original statement): a method that is not a paginated read and
\* returns without error has made exactly one round trip.
C12_ExactlyOneRoundTrip ==
    (call.pc = "returned" /\ call.err = NoError) => Len(call.sent) = 1

\* C12 (amended): a method sends its requests one after another, each only
\* when the one before it has been answered, and returns only when the last
\* of them has been answered; it may send none, one or several.
C12_RoundTripsOneAfterAnother ==
    /\ Cardinality(call.inFlight) <= 1
    /\ Len(call.sent) - Len(call.answers) = Cardinality(call.inFlight)
    /\ call.pc = "returned" => call.inFlight = {}

\* C12 witness: RemoveStorageProfile has returned after three requests, all
\* answered
C12_Witness ==
    /\ call.pc = "returned"
    /\ call.method = "RemoveStorageProfile"
    /\ Len(call.sent) = 3
    /\ Len(call.answers) = 3
    /\ call.err = NoError

\* C13: the PUT that addMetadata sends for the GENERAL domain carries the
\* domain GENERAL and the visibility READWRITE, whatever visibility was
\* passed; the PUT for the SYSTEM domain carries the domain SYSTEM and the
\* visibility passed.
C13_GeneralIsReadWrite ==
    ret.op = "addMetadata" =>
        \A i \in 1..Len(ret.res.requests) :
            LET req == ret.res.requests[i]
            IN  IF ret.isSystem
                THEN /\ req.body.Domain = [Visibility |-> ret.visibility, Domain |-> "SYSTEM"]
                     /\ req.path = <<"metadata", "SYSTEM", ret.key>>
                ELSE /\ req.body.Domain = [Visibility |-> "READWRITE", Domain |-> "GENERAL"]
                     /\ req.path = <<"metadata", ret.key>>

\* C13 witness: a PUT sent for the GENERAL domain by a caller that passed
\* the hidden visibility
C13_Witness ==
    /\ ret.op = "addMetadata"
    /\ ~ret.isSystem
    /\ ret.visibility = "PRIVATE"
    /\ Len(ret.res.requests) = 1
    /\ ret.res.requests[1].body.Domain.Visibility = "READWRITE"
    /\ ret.res.err = NoError

\* the entries of a list that no rule asks to ignore, in the list's order
RECURSIVE Kept(_, _, _, _)
Kept(entries, h, name, rules) ==
    IF entries = <<>> THEN <<>>
    ELSE LET e == Head(entries)
             ignored == ContainsIgnored(
                 filterSingleXmlMetadataEntry(e.Key, h, name, e.Value, rules).err)
         IN  (IF ignored THEN <<>> ELSE <<e>>) \o Kept(Tail(entries), h, name, rules)

\* C14: filterXmlMetadata that returns without error returns a structure
\* distinct from the one it was passed, holding the entries that are kept,
\* for every rule list, the empty one included.
C14_ReturnsCopy ==
    (ret.op = "filterXmlMetadata" /\ ret.res.err = NoError) =>
        /\ ret.res.object = "result"
        /\ Deref(ret.res.out) = Kept(ret.allMetadata, ret.href, ret.name, IgnoredMetadata)

\* C14: with at least one rule the structure returned is a new one and holds
\* the kept entries
C14_ReturnsCopyWithRules ==
    (ret.op = "filterXmlMetadata" /\ ret.res.err = NoError /\ IgnoredMetadata # <<>>) =>
        /\ ret.res.object = "result"
        /\ Deref(ret.res.out) = Kept(ret.allMetadata, ret.href, ret.name, IgnoredMetadata)

\* C14: the call with the empty rule list, which returns its argument
C14_EmptyRuleList ==
    /\ ret.op = "filterXmlMetadata"
    /\ IgnoredMetadata = <<>>
    /\ ret.allMetadata # <<>>
    /\ ret.res.object = "allMetadata"

\* the rule list with the ObjectName of every rule set to nil
WithoutObjectName(rules) ==
    [i \in 1..Len(rules) |-> [rules[i] EXCEPT !.ObjectName = Nil]]

\* a rule whose only non-nil field is ObjectName
OnlyObjectName(rule) ==
    /\ ~IsNil(rule.ObjectName)
    /\ IsNil(rule.ObjectType)
    /\ IsNil(rule.KeyRegex)
    /\ IsNil(rule.ValueRegex)

\* C15: for an entry with the empty object name (the ByHref methods) the
\* outcome of the filter equals the outcome with the same rules having
\* ObjectName nil.
C15_ObjectNameTakesNoPart ==
    (ret.op = "filter" /\ ret.entry.ObjectName = <<>>) =>
        ret.isFiltered =
            filterSingleGenericMetadataEntry(ret.entry, WithoutObjectName(IgnoredMetadata))

\* C15: the same, for rule lists in which no rule has ObjectName as its only
\* non-nil field
C15_ObjectNameTakesNoPartWithOtherField ==
    (/\ ret.op = "filter"
     /\ ret.entry.ObjectName = <<>>
     /\ \A i \in 1..Len(IgnoredMetadata) : ~OnlyObjectName(IgnoredMetadata[i])) =>
        ret.isFiltered =
            filterSingleGenericMetadataEntry(ret.entry, WithoutObjectName(IgnoredMetadata))

\* C15: an entry with the empty object name ignored by a rule that names
\* nothing but an object
C15_OnlyObjectNameIgnoresAll ==
    /\ ret.op = "filter"
    /\ ret.entry.ObjectName = <<>>
    /\ Len(IgnoredMetadata) = 1
    /\ OnlyObjectName(IgnoredMetadata[1])
    /\ ret.isFiltered

\* the IDs and the names of the entities deleted without error, none of
\* which has been created again
DeletedIds == {d.ID : d \in call.deleted}
DeletedNames == {d.Name : d \in call.deleted}

C16_WitnessById ==
    /\ ret.op = "GetById"
    /\ ret.id \in DeletedIds
    /\ ret.answer = "ok"
    /\ ret.res.err = ErrorEntityNotFound

C17_IpSpaceUplinkUpdateTargetsReceiver ==
    (ret.op = "Update" /\ call.kind = "IpSpaceUplink") =>
        /\ \A i \in 1..Len(ret.res.requests) : ret.res.requests[i].id = ret.receiver.ID
        /\ \A e \in ret.res.out : e.ID = ret.receiver.ID

\* C17: Update of a Segment Profile Template has changed another template
\* than its receiver
C17_UpdatedAnother ==
    /\ ret.op = "Update"
    /\ call.kind = "NsxtSegmentProfileTemplate"
    /\ ret.res.err = NoError
    /\ \E e \in ret.res.out : e.ID # ret.receiver.ID

\* what GetMetadata returns for the object when the server holds store
Shown(store, name) ==
    Deref(getMetadata(Client, SessionHref, name, Ptr(store)).out)

HasEntry(entries, key, value) ==
    \E i \in 1..Len(entries) : entries[i] = [Key |-> key, Value |-> value]

HasKey(entries, key) == \E i \in 1..Len(entries) : entries[i].Key = key

\* the entries of a store under the keys other than those of the set
Others(store, keys) == SelectSeq(store, LAMBDA e : e.Key \notin keys)

KeysOf(entries) == {entries[i].Key : i \in 1..Len(entries)}

One(b) == IF b THEN 1 ELSE 0

\* C18: after AddMetadataEntry(k, v) succeeds GetMetadata returns exactly
\* one more entry than before and contains k with value v; after
\* MergeMetadata every key of the input has the new value in what
\* GetMetadata returns; after DeleteMetadataEntry of a key GetMetadata
\* returns one entry less and not that key.
C18_WritesRoundTrip ==
    /\ (ret.op = "addMetadataDeprecated" /\ ret.err = NoError) =>
          \A name \in SessionNames :
              /\ Len(Shown(server, name)) = Len(Shown(ret.before, name)) + 1
              /\ HasEntry(Shown(server, name), ret.key, ret.value)
    /\ (ret.op = "mergeAllMetadataDeprecated" /\ ret.err = NoError) =>
          \A name \in SessionNames :
              \A i \in 1..Len(ret.metadata) :
                  HasEntry(Shown(server, name), ret.metadata[i].Key, ret.metadata[i].Value)
    /\ (ret.op = "deleteMetadata" /\ ret.err = NoError) =>
          \A name \in SessionNames :
              /\ Len(Shown(server, name)) = Len(Shown(ret.before, name)) - 1
              /\ ~HasKey(Shown(server, name), ret.key)

\* C18 as it holds: after AddMetadataEntry(k, v) succeeds the server holds
\* k with value v, one more entry than before when k was not there and as
\* many otherwise; after MergeMetadata it holds every entry of the input,
\* the keys it had and those of the input; after DeleteMetadataEntry of k
\* it holds the entries it had but k; the entries under other keys are as
\* they were; and GetMetadata returns of the entries held those that do not
\* match the rules of the client.
C18_WritesShowInReads ==
    /\ (ret.op = "addMetadataDeprecated" /\ ret.err = NoError) =>
          /\ StoreGet(server, ret.key) = Ptr(ret.value)
          /\ Len(server) = Len(ret.before) + One(StoreGet(ret.before, ret.key) = Absent)
          /\ Others(server, {ret.key}) = Others(ret.before, {ret.key})
          /\ \A name \in SessionNames :
                /\ HasEntry(Shown(server, name), ret.key, ret.value)
                      <=> ~IgnoredNow(name, ret.key, ret.value)
                /\ Len(Shown(server, name)) =
                      Len(Shown(ret.before, name))
                      + One(HasKey(Shown(server, name), ret.key))
                      - One(HasKey(Shown(ret.before, name), ret.key))
    /\ (ret.op = "mergeAllMetadataDeprecated" /\ ret.err = NoError) =>
          /\ \A i \in 1..Len(ret.metadata) :
                StoreGet(server, ret.metadata[i].Key) = Ptr(ret.metadata[i].Value)
          /\ KeysOf(server) = KeysOf(ret.before) \cup KeysOf(ret.metadata)
          /\ Len(server) = Cardinality(KeysOf(server))
          /\ Others(server, KeysOf(ret.metadata)) = Others(ret.before, KeysOf(ret.metadata))
    /\ (ret.op = "deleteMetadata" /\ ret.err = NoError) =>
          /\ StoreGet(ret.before, ret.key) # Absent
          /\ server = Others(ret.before, {ret.key})
          /\ Len(server) = Len(ret.before) - 1
    /\ ret.op \in {"addMetadataDeprecated", "mergeAllMetadataDeprecated", "deleteMetadata"} =>
          \A name \in SessionNames :
              Shown(server, name) = Kept(server, SessionHref, name, IgnoredMetadata)

\* C18 witness: a merge that updated the key added before and created
\* another, on a client with rules
C18_Witness ==
    /\ ret.op = "mergeAllMetadataDeprecated"
    /\ ret.err = NoError
    /\ Len(ret.metadata) = 2
    /\ \E i \in 1..Len(ret.metadata) :
          /\ StoreGet(ret.before, ret.metadata[i].Key) # Absent
          /\ StoreGet(ret.before, ret.metadata[i].Key) # Ptr(ret.metadata[i].Value)
    /\ \E i \in 1..Len(ret.metadata) : StoreGet(ret.before, ret.metadata[i].Key) = Absent
    /\ IgnoredMetadata # <<>>
    /\ Len(Shown(server, <<>>)) < Len(server)

\* C18: an add that succeeded on a key the object had
C18_AddOfPresentKey ==
    /\ ret.op = "addMetadataDeprecated"
    /\ ret.err = NoError
    /\ IgnoredMetadata = <<>>
    /\ StoreGet(ret.before, ret.key) # Absent
    /\ Len(Shown(server, <<>>)) = Len(Shown(ret.before, <<>>))

\* C19: addMetadata called with an entry that matches the ignore filter
\* sends no request, returns an error and no task, and the server holds what
\* it held.
C19_IgnoredEntryIsNotAdded ==
    (ret.op = "addMetadata" /\ IgnoredNow(ret.name, ret.key, ret.value)) =>
        /\ ret.res.requests = <<>>
        /\ ret.res.err # NoError
        /\ ContainsIgnored(ret.res.err)
        /\ ret.res.task = Nil
        /\ server = ret.before

\* C19 witness: an add refused for the value of the entry, on a server that
\* holds another value under the key
C19_Witness ==
    /\ ret.op = "addMetadata"
    /\ IgnoredNow(ret.name, ret.key, ret.value)
    /\ ~IgnoredNow(ret.name, ret.key, "v2")
    /\ StoreGet(ret.before, ret.key) = Ptr("v2")
    /\ ret.res.requests = <<>>
    /\ ret.err # NoError

\* the entries of the input of a merge that do not match the ignore filter
NotIgnored(entries, h, name) ==
    SelectSeq(entries, LAMBDA e : ~EntryIgnored(e, h, name))

\* C20: the body of the POST of mergeAllMetadata holds exactly the input
\* entries that do not match the ignore filter; when none is left no request
\* is sent and an error is returned.
C20_MergeSendsNotIgnored ==
    ret.op = "mergeAllMetadata" =>
        LET kept == NotIgnored(ret.metadata, ret.href, ret.name)
        IN  IF kept = <<>>
            THEN /\ ret.res.requests = <<>>
                 /\ ret.res.err = ErrNothingToMerge
                 /\ ret.res.task = Nil
            ELSE /\ Len(ret.res.requests) = 1
                 /\ ret.res.requests[1].method = "POST"
                 /\ ret.res.requests[1].body = kept

\* C20 witness: a merge of two entries of which one is ignored
C20_Witness ==
    /\ ret.op = "mergeAllMetadata"
    /\ Len(ret.metadata) = 2
    /\ Len(NotIgnored(ret.metadata, ret.href, ret.name)) = 1
    /\ Len(ret.res.requests) = 1
    /\ Len(ret.res.requests[1].body) = 1
    /\ ret.res.err = NoError

\* C20: a merge of which every entry is ignored
C20_WitnessNoneLeft ==
    /\ ret.op = "mergeAllMetadata"
    /\ Len(ret.metadata) = 2
    /\ ret.res.requests = <<>>
    /\ ret.res.err = ErrNothingToMerge

\* C21: when the entry fetched for the key matches the ignore filter,
\* getMetadataByKey returns a nil value and an error.
C21_IgnoredValueIsNotReturned ==
    (/\ ret.op = "getMetadataByKey"
     /\ ret.stored # Absent
     /\ EntryIgnored([Key |-> ret.key, Value |-> Deref(ret.stored)], ret.href, ret.name)) =>
        /\ ret.res.value = Nil
        /\ ret.res.err # NoError

\* C21 witness: the value fetched is ignored for what it is, by a rule with
\* a value expression, and the call has failed
C21_Witness ==
    /\ ret.op = "getMetadataByKey"
    /\ ret.stored = Ptr("v1")
    /\ EntryIgnored([Key |-> ret.key, Value |-> "v1"], ret.href, ret.name)
    /\ ~EntryIgnored([Key |-> ret.key, Value |-> "v2"], ret.href, ret.name)
    /\ ret.res.value = Nil
    /\ ContainsIgnored(ret.res.err)

\* the operations of the ByHref methods
ByHrefOps ==
    {"normaliseXmlMetadata", "MergeMetadataWithVisibilityByHrefAsync",
     "AddMetadataEntryWithVisibilityByHrefAsync"}

\* the entry matches the rules when its object has the type given
IgnoredWithType(key, value, type) ==
    filterSingleGenericMetadataEntry(
        [ObjectType |-> type, ObjectName |-> <<>>, Key |-> key, Value |-> value],
        IgnoredMetadata)

\* the entries of the list that do not match the rules when the object has
\* the type given
RECURSIVE KeptWithType(_, _)
KeptWithType(entries, type) ==
    IF entries = <<>> THEN <<>>
    ELSE IF IgnoredWithType(Head(entries).Key, Head(entries).Value, type)
    THEN KeptWithType(Tail(entries), type)
    ELSE <<Head(entries)>> \o KeptWithType(Tail(entries), type)

\* C22, first half: for an HREF <prefix>/<type>/<id> the object type that the
\* entries are normalised and filtered with is <type>.
C22_ObjectTypeIsLastButOne ==
    (ret.op \in ByHrefOps /\ ret.form = "prefix/type/id") =>
        /\ ret.op = "normaliseXmlMetadata" =>
              /\ ret.res.err = NoError
              /\ Deref(ret.res.entry).ObjectType = Deref(ret.type)
        /\ ret.op = "MergeMetadataWithVisibilityByHrefAsync" =>
              /\ ret.filtered.err = NoError
              /\ Deref(ret.filtered.out) = KeptWithType(ret.metadata, Deref(ret.type))
        /\ ret.op = "AddMetadataEntryWithVisibilityByHrefAsync" =>
              (ret.res.requests = <<>>
                  <=> IgnoredWithType(ret.key, ret.value, Deref(ret.type)))

\* C22, second half, for one entry: an HREF with less than two parts makes
\* the normalisation fail with the error that names the HREF, and the entry
\* is not written.
C22_NoObjectTypeIsAnError ==
    (ret.op \in {"normaliseXmlMetadata", "AddMetadataEntryWithVisibilityByHrefAsync"}
        /\ ret.type = Nil) =>
        /\ ret.res.err = ErrNoObjectType(ret.href)
        /\ ret.op = "normaliseXmlMetadata" => ret.res.entry = Nil
        /\ ret.op = "AddMetadataEntryWithVisibilityByHrefAsync" => ret.res.requests = <<>>

\* C22: for every HREF <prefix>/<type>/<id> the object type used by the
\* ignore filter is <type>; an HREF with less than two parts yields an
\* error, and then no entry of the object is reported as kept or as ignored:
\* where the rules are applied to the entries of such an object, the answer
\* is the error and no list of entries.
C22_TypeFromHrefOrError ==
    /\ C22_ObjectTypeIsLastButOne
    /\ C22_NoObjectTypeIsAnError
    /\ (/\ ret.op = "MergeMetadataWithVisibilityByHrefAsync"
        /\ ret.type = Nil
        /\ Len(IgnoredMetadata) > 0
        /\ ret.metadata # <<>>) =>
            /\ ret.filtered.out = Nil
            /\ ret.filtered.err = ErrNoObjectType(ret.href)
            /\ ret.res.err = ErrNoObjectType(ret.href)

\* C22: the state that violates it.  The HREF has no "/" and holds the word
\* "ignored"; the error of the normalisation is taken for the error of an
\* ignored entry, every entry is dropped as ignored and the call answers
\* that nothing was left to merge.
C22_IgnoredInHref ==
    /\ ret.op = "MergeMetadataWithVisibilityByHrefAsync"
    /\ ret.href = <<"i", "g", "n", "o", "r", "e", "d">>
    /\ Len(IgnoredMetadata) > 0
    /\ \A i \in 1..Len(IgnoredMetadata) : AllFieldsNil(IgnoredMetadata[i])
    /\ Len(ret.metadata) = 2
    /\ ret.filtered = [out |-> Ptr(<<>>), err |-> NoError, object |-> "result"]
    /\ ret.res.err = ErrNothingToMerge

\* C22: the other HREFs without "/" give the error, whatever the rules
C22_OtherHrefsGiveTheError ==
    (/\ ret.op = "MergeMetadataWithVisibilityByHrefAsync"
     /\ ret.type = Nil
     /\ ~ContainsIgnored(ret.href)
     /\ Len(IgnoredMetadata) > 0
     /\ ret.metadata # <<>>) =>
        /\ ret.filtered = [out |-> Nil, err |-> ErrNoObjectType(ret.href), object |-> "nil"]
        /\ ret.res.err = ErrNoObjectType(ret.href)
        /\ ret.res.requests = <<>>

\* C22: with an empty rule list the type is not derived at all, and the
\* entries of an HREF without "/" are sent as they are
C22_EmptyRuleListDerivesNoType ==
    /\ ret.op = "MergeMetadataWithVisibilityByHrefAsync"
    /\ ret.type = Nil
    /\ Len(IgnoredMetadata) = 0
    /\ ret.metadata # <<>>
    /\ ret.filtered = [out |-> Ptr(ret.metadata), err |-> NoError, object |-> "allMetadata"]
    /\ Len(ret.res.requests) = 1

\* the steps of an "and wait" helper, in the order of its code
HelperSteps == <<"request", "wait", "refresh">>

\* the helpers whose code ends with the refresh of the object
HelpersWithRefresh ==
    {"updateVdcV97", "AddStorageProfileWait", "RemoveStorageProfileWait"}

\* C23: in every "and wait" helper the steps run in the order request, wait,
\* refresh; the task is waited on only if the request that creates it
\* succeeded, the object is refreshed only after the wait succeeded, and when
\* a step fails no later step is executed and the helper returns the error
\* of that step (CreateVdcWait returns the error of the wait inside its own
\* message).  A helper that returns without an error has run all its steps.
C23_RequestWaitRefresh ==
    LET st == wait.steps
    IN  /\ Len(st) <= Len(HelperSteps)
        /\ \A i \in 1..Len(st) : st[i].step = HelperSteps[i]
        /\ \A i \in 1..(Len(st) - 1) : st[i].err = NoError
        /\ Len(st) = 3 => wait.helper \in HelpersWithRefresh
        /\ (wait.polls > 0 \/ wait.pc = "wait") =>
              /\ Len(st) >= 1
              /\ st[1] = Step("request", NoError)
              /\ task.status # "none"
        /\ wait.pc = "refresh" =>
              /\ Len(st) = 2
              /\ st[2] = Step("wait", NoError)
              /\ task.status = "success"
        /\ wait.pc = "done" =>
              /\ Len(st) >= 1
              /\ LET failed == st[Len(st)]
                 IN  IF failed.err # NoError
                     THEN /\ Carries(wait.err, failed.err)
                          /\ wait.helper # "CreateVdcWait" => wait.err = failed.err
                     ELSE /\ wait.err = NoError
                          /\ Len(st) = IF wait.helper \in HelpersWithRefresh THEN 3 ELSE 2

\* C23 witness: the task of RemoveStorageProfileWait failed; the helper has
\* returned the error of the wait and has not refreshed the object
C23_Witness ==
    /\ wait.helper = "RemoveStorageProfileWait"
    /\ wait.pc = "done"
    /\ wait.steps = <<Step("request", NoError), Step("wait", <<"m1">>)>>
    /\ wait.err = <<"m1">>
    /\ task.status = "error"

\* C23 witness: AddStorageProfileWait has run its three steps and returned
\* the error of the refresh
C23_WitnessRefreshFails ==
    /\ wait.helper = "AddStorageProfileWait"
    /\ wait.pc = "done"
    /\ Len(wait.steps) = 3
    /\ wait.steps[3] = Step("refresh", ErrRefresh)
    /\ wait.err = ErrRefresh

\* C23 witness: the request of mergeMetadataAndWait failed; no task was
\* created and none was waited on
C23_WitnessRequestFails ==
    /\ wait.helper = "mergeMetadataAndWait"
    /\ wait.pc = "done"
    /\ wait.steps = <<Step("request", ErrRequest)>>
    /\ wait.polls = 0
    /\ task = NoTask
    /\ wait.err = ErrRequest
====
